---- MODULE Spec2Model ----
(***************************************************************************)
(* A model of texera-rudf: the row marshaller of RTupleExecutor /          *)
(* RTupleSourceExecutor (process_tuple, produce, r_utils) and the table    *)
(* marshaller of RTableExecutor, the guest-side large-object functions     *)
(* injected by _setup_r_large_binary_apis (largebinary, the two streams),  *)
(* the constructors' environment setup, the guest calls of concurrent      *)
(* operator instances, convert_r_to_py and the schema tagging.             *)
(*                                                                         *)
(* Values.  Every value, native (Python) or guest (rpy2 / R), is a record  *)
(* [t |-> class, v |-> elements]: t is the class isinstance tests, v the   *)
(* sequence of the value's elements, each element a sequence of one-letter *)
(* tokens (the characters of a string, the bytes of a blob, the digits of  *)
(* a number).  A native scalar has one element, an R vector one element    *)
(* per position, None and R's NULL have none.                              *)
(***************************************************************************)
EXTENDS Integers, Sequences, FiniteSets, TLC

VARIABLES
    kind,                \* "tuple": RTupleExecutor, "source": RTupleSourceExecutor
    tuple_,              \* the input row: fields [name, type, meta, val] in schema order
    script,              \* what the guest generator returns, call after call
    pc,                  \* the Python generator object: "created", "suspended", "done"
    input_fields,        \* process_tuple's local of that name
    non_binary_fields,   \* process_tuple's local of that name
    binary_fields,       \* process_tuple's local of that name
    large_binary_fields, \* process_tuple's local of that name
    input_r_list,        \* the guest record handed to the user callable
    funcCalls,           \* calls of self._func so far
    genPos,              \* index in script of the guest generator's next return
    genCalls,            \* invocations of output_r_generator so far (up to YieldCap)
    output_py_tuple,     \* the loop's local of that name: [isNone, row]
    yielded,             \* the elements yielded so far (the first YieldCap of them)
    tpc,                 \* _convert_largebinary_to_string_in_dataframe: "called", "returned"
    df_in,               \* the data frame it was called with: columns [name, values]
    df,                  \* its local df, the copy it converts and returns
    large_binary_columns, \* its local of that name
    stopIterations,      \* next() calls on the ended generator (up to MaxRequestsAfterEnd)
    sdir,                \* the stream: "in" LargeBinaryInputStream, "out" LargeBinaryOutputStream
    closed,              \* the stream closure's variable of that name
    file_conn,           \* the staging file's connection: "open", "closed"
    temp_file,           \* the staging file exists
    content,             \* the bytes of the staging file
    readPos,             \* how many of them file_conn has read
    object,              \* the object at the stream's URI: [present, bytes]
    closeCalls,          \* calls of close() so far (up to 2)
    uploads,             \* put_object attempts so far (up to 2)
    lastCall,            \* the last call on the stream and what it did
    lbpc,                \* the R session of largebinary: "idle", "ready"
    clock,               \* Sys.time() in milliseconds
    bucket,              \* the default bucket exists
    rng,                 \* the state of the session's random number generator
    minted,              \* the URIs largebinary() has returned, in order
    lastLb,              \* the last call of largebinary and what it did
    ppc,                 \* the process of the constructors: "idle", "running"
    constructing,        \* the class whose __init__ has set up and not yet loaded
    StorageConfig,       \* core's StorageConfig: its four S3 attributes
    environ,             \* os.environ: the four STORAGE_S3_* variables
    aws_s3,              \* the R package aws.s3 is installed
    r_functions,         \* the R functions of the setup are defined
    ctorLog,             \* what the constructors did, in order
    operators,           \* the operator instances of a process: [cls, at]
    cvpc,                \* a call of convert_r_to_py: "idle", "called", "returned"
    cv_value,            \* its parameter value
    converted,           \* what it returned, or the exception it raised
    schpc,               \* _add_large_binary_metadata_to_schema: "idle", "called", ...
    sch_table,           \* its parameter table
    sch_columns,         \* its parameter large_binary_columns
    sch_result,          \* what it returned: [table, same]
    sch_again,           \* what a second call with that table returned
    ptpc,                \* the generator of process_table: "created", "suspended", ...
    pt_table,            \* its parameter table, a data frame
    input_large_binary_columns,   \* the columns detected on the input table
    input_pyarrow_table,          \* the Arrow table handed to the guest routine
    output_pandas_df,             \* the guest's output table as a data frame
    output_large_binary_columns,  \* the columns detected on the output table
    output_pyarrow_table,         \* the output Arrow table the rows are read from
    pt_rows              \* how many rows the generator has yielded

rowVars == <<kind, tuple_, script, pc, input_fields, non_binary_fields,
             binary_fields, large_binary_fields, input_r_list, funcCalls,
             genPos, genCalls, output_py_tuple, yielded, stopIterations>>
processVars == <<ptpc, pt_table, input_large_binary_columns,
                 input_pyarrow_table, output_pandas_df,
                 output_large_binary_columns, output_pyarrow_table, pt_rows>>
tableVars == <<tpc, df_in, df, large_binary_columns, processVars>>
streamVars == <<sdir, closed, file_conn, temp_file, content, readPos, object,
                closeCalls, uploads, lastCall>>
lbVars == <<lbpc, clock, bucket, rng, minted, lastLb>>
setupVars == <<ppc, constructing, StorageConfig, environ, aws_s3, r_functions,
               ctorLog>>
convertVars == <<cvpc, cv_value, converted>>
schemaVars == <<schpc, sch_table, sch_columns, sch_result, sch_again>>
\* the guest-side functions and the process-wide state
guestVars == <<streamVars, lbVars, setupVars, operators, convertVars,
               schemaVars>>
vars == <<rowVars, tableVars, guestVars>>
exceptStream ==
    <<rowVars, tableVars, lbVars, setupVars, operators, convertVars, schemaVars>>
exceptLb ==
    <<rowVars, tableVars, streamVars, setupVars, operators, convertVars,
      schemaVars>>
exceptSetup ==
    <<rowVars, tableVars, streamVars, lbVars, operators, convertVars, schemaVars>>
exceptOperators ==
    <<rowVars, tableVars, streamVars, lbVars, setupVars, convertVars, schemaVars>>
exceptConvert ==
    <<rowVars, tableVars, streamVars, lbVars, setupVars, operators, schemaVars>>
exceptSchema ==
    <<rowVars, tableVars, streamVars, lbVars, setupVars, operators, convertVars>>

----------------------------------------------------------------------------
(* Bounds of the model *)

\* the longest input row (fields)
MaxFields == 2
\* the longest script of a row operator's guest generator (its returns before
\* it ends or repeats)
MaxScript == 2
\* the longest script of a row source's guest generator
MaxSourceScript == 4
\* the most columns of a data frame, and the most cells (rows x columns)
MaxCols == 2
MaxCells == 5
\* how many more elements the consumer requests of a generator that has ended
MaxRequestsAfterEnd == 2
\* the longest staging file of a stream, and the longest raw vector of a write
MaxContent == 3
MaxData == 2
\* how many URIs a guest routine mints, and how far its clock runs
MaxMints == 2
MaxClock == 2
\* how many executors a process constructs
MaxExecutors == 2
\* how many operator instances run in one process
MaxInstances == 2
\* the longest guest vector handed to convert_r_to_py
MaxVector == 2
\* the most fields of an Arrow table handed to the schema tagging
MaxSchemaFields == 2
\* the most columns of a table handed to process_table or returned by its
\* guest routine, and the most cells (rows x columns)
MaxTableCols == 2
MaxTableCells == 2

\* how many yielded elements and generator calls the history variables keep:
\* one more than the longest script
YieldCap(k) == IF k = "tuple" THEN MaxScript + 1 ELSE MaxSourceScript + 1

----------------------------------------------------------------------------
(* Strings and values *)

\* "s3://", the scheme prefix tested by value.startswith("s3://")
S3Prefix == <<"s", "3", ":", "/", "/">>

\* str.startswith
startswith(s, p) == Len(s) >= Len(p) /\ SubSeq(s, 1, Len(p)) = p

\* the URI and the strings the model's rows and guest records hold
UriK == S3Prefix \o <<"k">>
UriM == S3Prefix \o <<"m">>
StrAb == <<"a", "b">>

isinstance(value, cls) == value.t = cls

PyNone == [t |-> "none", v |-> <<>>]
PyInt(tok) == [t |-> "int", v |-> <<tok>>]
PyStr(chars) == [t |-> "str", v |-> <<chars>>]
PyBytes(bytes) == [t |-> "bytes", v |-> <<bytes>>]
\* core.models.type.large_binary.largebinary(uri): a reference holding uri
largebinary(uri) == [t |-> "largebinary", v |-> <<uri>>]
\* an R vector of class cls, and R's NULL
RVector(cls, elems) == [t |-> cls, v |-> elems]
RNULL == [t |-> "NULL", v |-> <<>>]
\* what a Python expression that raises evaluates to
Raised(exc) == [t |-> "raise", v |-> <<<<exc>>>>]

\* rpy2's class hierarchy: POSIXct is a FloatVector
IsFloatVector(value) == value.t \in {"FloatVector", "POSIXct"}

\* r_utils.convert_r_to_py
convert_r_to_py(value) ==
    IF isinstance(value, "largebinary") THEN value
    ELSE IF isinstance(value, "BoolVector") THEN
        IF Len(value.v) = 0 THEN Raised("IndexError")
        ELSE [t |-> "bool", v |-> <<value.v[1]>>]
    ELSE IF isinstance(value, "IntVector") THEN
        IF Len(value.v) = 0 THEN Raised("IndexError")
        ELSE [t |-> "int", v |-> <<value.v[1]>>]
    ELSE IF IsFloatVector(value) THEN
        IF isinstance(value, "POSIXct") THEN
            IF Len(value.v) = 0 THEN Raised("StopIteration")
            ELSE [t |-> "datetime", v |-> <<value.v[1]>>]
        ELSE IF Len(value.v) = 0 THEN Raised("IndexError")
        ELSE [t |-> "float", v |-> <<value.v[1]>>]
    ELSE IF isinstance(value, "StrVector") THEN
        IF Len(value.v) = 0 THEN Raised("IndexError")
        ELSE [t |-> "str", v |-> <<value.v[1]>>]
    ELSE value

\* the bridge's conversion of a native value placed in a guest list
\* (robjects.vectors.ListVector(dict), and the Arrow struct for plain fields)
py2rpy(value) ==
    IF isinstance(value, "bool") THEN RVector("BoolVector", value.v)
    ELSE IF isinstance(value, "int") THEN RVector("IntVector", value.v)
    ELSE IF isinstance(value, "float") THEN RVector("FloatVector", value.v)
    ELSE IF isinstance(value, "str") THEN RVector("StrVector", value.v)
    ELSE IF isinstance(value, "datetime") THEN RVector("POSIXct", value.v)
    ELSE IF isinstance(value, "bytes") THEN RVector("ByteVector", value.v)
    ELSE IF isinstance(value, "none") THEN RNULL
    ELSE value

\* the header process_tuple skips before unpickling: v[10:]
HeaderLen == 10

\* the engine's header on a pickled binary value, b"pickle    "
PickleHeader == <<"p", "i", "c", "k", "l", "e", " ", " ", " ", " ">>

\* pickle.dumps of a native int or str: a type code, then the payload
pickle_dumps(value) ==
    IF isinstance(value, "int") THEN <<"I">> \o value.v[1]
    ELSE <<"S">> \o value.v[1]

\* pickle.loads
pickle_loads(bytes) ==
    IF Len(bytes) = 0 THEN Raised("EOFError")
    ELSE IF Head(bytes) = "I" THEN PyInt(Tail(bytes))
    ELSE IF Head(bytes) = "S" THEN PyStr(Tail(bytes))
    ELSE Raised("UnpicklingError")

\* v[10:] of a bytes value
SkipHeader(bytes) ==
    IF Len(bytes) <= HeaderLen THEN <<>>
    ELSE SubSeq(bytes, HeaderLen + 1, Len(bytes))

----------------------------------------------------------------------------
(* The input row and its schema *)

\* the value of TEXERA_TYPE_METADATA_KEY that tags a large-object field
LARGE_BINARY_METADATA_VALUE == "LARGE_BINARY"

\* pa.binary()
pa_binary == "binary"

\* the names of an input row's fields, by position
FieldNames == <<"a", "b", "c", "d">>

\* a pickled binary value as the engine stores it: the header, then the pickle
PickledBytes(value) == PyBytes(PickleHeader \o pickle_dumps(value))

\* The (declared type, metadata, runtime value) combinations of a field.
\* meta is the schema field's value under TEXERA_TYPE_METADATA_KEY:
\* "none" when the field has no metadata.
FieldVariants ==
    { [type |-> "int64",   meta |-> "none",  val |-> PyInt(<<"1">>)],
      [type |-> "string",  meta |-> "other", val |-> PyStr(UriK)],
      [type |-> pa_binary, meta |-> "none",  val |-> PickledBytes(PyInt(<<"7">>))],
      [type |-> "string",  meta |-> LARGE_BINARY_METADATA_VALUE,
       val |-> largebinary(UriK)],
      [type |-> pa_binary, meta |-> LARGE_BINARY_METADATA_VALUE,
       val |-> PyStr(UriM)],
      [type |-> "string",  meta |-> LARGE_BINARY_METADATA_VALUE,
       val |-> PyNone] }

\* the input rows: 1..MaxFields fields, named by position
Rows ==
    { [i \in DOMAIN f |-> [name |-> FieldNames[i], type |-> f[i].type,
                           meta |-> f[i].meta, val |-> f[i].val]] :
        f \in UNION { [1..n -> FieldVariants] : n \in 1..MaxFields } }

\* the sequence of f(s[i])
NamesOf(s) == [i \in DOMAIN s |-> s[i].name]

\* x in a Python list
InList(x, list) == \E i \in DOMAIN list : list[i] = x

----------------------------------------------------------------------------
(* process_tuple: the native row to the guest record *)

\* process_tuple's is_large_binary: the field has metadata and its value under
\* TEXERA_TYPE_METADATA_KEY is LARGE_BINARY_METADATA_VALUE
is_large_binary(field) ==
    field.meta # "none" /\ field.meta = LARGE_BINARY_METADATA_VALUE

\* FieldGroup with the declared type tested before the tag
FieldGroup_TypeFirst(field) ==
    IF field.type = pa_binary THEN "binary"
    ELSE IF is_large_binary(field) THEN "large_binary"
    ELSE "non_binary"

\* the group the loop over input_schema appends the field's name to
FieldGroup(field) ==
    IF is_large_binary(field) THEN "large_binary"
    ELSE IF field.type = pa_binary THEN "binary"
    ELSE "non_binary"

\* the names the loop over input_schema appends to one group, in schema order
GroupFields(schema, group) ==
    NamesOf(SelectSeq(schema, LAMBDA field : FieldGroup(field) = group))

\* tuple_.get_partial_tuple(names).as_dict().items(): the fields, in names' order
get_partial_tuple(row, names) ==
    [i \in DOMAIN names |->
        (CHOOSE j \in DOMAIN row : row[j].name = names[i]) ] 

\* the guest value of a plain field: the one-row Arrow struct, as.list(as_vector())
PlainToGuest(v) == py2rpy(v)

\* the guest value of a binary field (the loop over binary_tuple)
BinaryToGuest(v) ==
    IF isinstance(v, "bytes") THEN
        LET obj == pickle_loads(SkipHeader(v.v[1]))
        IN  IF isinstance(obj, "raise") THEN obj ELSE py2rpy(obj)
    ELSE IF isinstance(v, "datetime") THEN RVector("POSIXct", v.v)
    ELSE py2rpy(v)

\* LargeBinaryToGuest handing the reference object over instead of its URI
LargeBinaryToGuest_NoUri(v) == py2rpy(v)

\* the guest value of a large-object field (the loop over large_binary_tuple)
LargeBinaryToGuest(v) ==
    IF isinstance(v, "largebinary") THEN py2rpy(PyStr(v.v[1]))
    ELSE IF isinstance(v, "str") THEN py2rpy(v)
    ELSE py2rpy(v)

\* one group's part of the guest record
GroupToGuest(row, names, group) ==
    [i \in DOMAIN names |->
        LET v == row[get_partial_tuple(row, names)[i]].val
        IN  [name |-> names[i],
             val |-> IF group = "large_binary" THEN LargeBinaryToGuest(v)
                     ELSE IF group = "binary" THEN BinaryToGuest(v)
                     ELSE PlainToGuest(v)]]

\* input_r_list: _combine_binary_and_non_binary_lists(non_binary, {**binary, **large})
BuildInputRList(row) ==
    GroupToGuest(row, GroupFields(row, "non_binary"), "non_binary")
    \o GroupToGuest(row, GroupFields(row, "binary"), "binary")
    \o GroupToGuest(row, GroupFields(row, "large_binary"), "large_binary")

\* whether building a record or a row raised
AnyRaised(items) == \E i \in DOMAIN items : isinstance(items[i].val, "raise")

----------------------------------------------------------------------------
(* The guest routine: what the generator returned by self._func returns *)

\* the reserved end-of-stream symbol
Exhausted == ".__exhausted__."

\* What one invocation of the guest generator returns, for a guest routine that
\* was called with the record rec (the empty record for a source):
\*   same     rec unchanged              drop1  rec without its first field
\*   addx     rec and a new field x      addyx  new y, then rec, then new x
\*   setab    every field set to "ab"    unnamed  a list without names
\*   sentinel the end-of-stream symbol
GuestReturn(beh, rec) ==
    LET list(items, named) ==
            [cls |-> "ListVector", str |-> "", named |-> named, items |-> items]
        x(chars) == [name |-> "x", val |-> RVector("StrVector", <<chars>>)]
        y == [name |-> "y", val |-> RVector("IntVector", <<<<"2">>>>)]
    IN  CASE beh = "same"   -> list(rec, TRUE)
          [] beh = "drop1"  -> list(IF rec = <<>> THEN rec ELSE Tail(rec), TRUE)
          [] beh = "addx"   -> list(rec \o <<x(UriM)>>, TRUE)
          [] beh = "addyx"  -> list(<<y>> \o rec \o <<x(StrAb)>>, TRUE)
          [] beh = "setab"  ->
               list([i \in DOMAIN rec |->
                        [name |-> rec[i].name,
                         val |-> RVector("StrVector", <<StrAb>>)]], TRUE)
          [] beh = "unnamed" -> list(rec, FALSE)
          [] OTHER -> [cls |-> "SexpSymbol", str |-> Exhausted, named |-> FALSE,
                       items |-> <<>>]

\* the behaviours of a row operator's guest routine, and of a source's
RecordBehaviours(k) ==
    IF k = "tuple" THEN {"same", "drop1", "addyx", "setab"} ELSE {"addx", "addyx"}
EndBehaviours == {"sentinel", "unnamed"}

\* The guest generators: 1..MaxScript returns; only the last may signal the
\* end of the stream, and a generator that never does repeats its returns.
Scripts(k) ==
    { sc \in UNION { [1..n -> RecordBehaviours(k) \cup EndBehaviours] :
                        n \in 1..(IF k = "tuple" THEN MaxScript
                                  ELSE MaxSourceScript) } :
        \A i \in 1..(Len(sc) - 1) : sc[i] \notin EndBehaviours }

----------------------------------------------------------------------------
(* r_utils.extract_tuple_from_r: the guest record to the native row *)

\* output_r_tuple.names is NULL
NamesIsNull(out) == ~out.named \/ out.items = <<>>

\* IsEndOfStream without the test of the names
IsEndOfStream_SentinelOnly(out) ==
    out.cls = "SexpSymbol" /\ out.str = Exhausted

\* the condition under which extract_tuple_from_r returns None
IsEndOfStream(out) ==
    (out.cls = "SexpSymbol" /\ out.str = Exhausted) \/ NamesIsNull(out)

\* output_r_tuple.rx2(key): the first element of that name, NULL if there is none
rx2(out, key) ==
    IF \E i \in DOMAIN out.items : out.items[i].name = key
    THEN out.items[CHOOSE i \in DOMAIN out.items :
                      /\ out.items[i].name = key
                      /\ \A j \in 1..(i - 1) : out.items[j].name # key].val
    ELSE RNULL

\* diff_fields with the new names in the reverse of the guest record's order
diff_fields_Reversed(out, inputFields) ==
    LET fwd == SelectSeq(NamesOf(out.items), LAMBDA n : ~InList(n, inputFields))
    IN  [i \in DOMAIN fwd |-> fwd[Len(fwd) + 1 - i]]

\* the field names of the guest record that are not input fields, in its order
diff_fields(out, inputFields) ==
    SelectSeq(NamesOf(out.items), LAMBDA n : ~InList(n, inputFields))

\* the keys of a dict built from these keys in turn: each once, at its first place
DictKeys(keys) ==
    LET firsts == { i \in DOMAIN keys : \A j \in 1..(i - 1) : keys[j] # keys[i] }
    IN  [k \in 1..Cardinality(firsts) |->
            keys[CHOOSE i \in firsts :
                    Cardinality({ j \in firsts : j < i }) = k - 1]]

\* OutputKeys taking the guest record's order for a non-source too
OutputKeys_GuestOrder(out, source_operator, inputFields) ==
    DictKeys(NamesOf(out.items))

\* the keys of output_python_dict
OutputKeys(out, source_operator, inputFields) ==
    DictKeys(IF source_operator THEN NamesOf(out.items)
             ELSE inputFields \o diff_fields(out, inputFields))

\* Rebinds detecting s3:// strings in every field, for a non-source too
Rebinds_AutoDetect(key, value, source_operator, largeBinaryFields) ==
    isinstance(value, "str") /\ startswith(value.v[1], S3Prefix)

\* whether the last loop of extract_tuple_from_r rebinds the field as a reference
Rebinds(key, value, source_operator, largeBinaryFields) ==
    /\ isinstance(value, "str")
    /\ startswith(value.v[1], S3Prefix)
    /\ \/ source_operator
       \/ largeBinaryFields # <<>> /\ InList(key, largeBinaryFields)

\* the value Tuple(output_python_dict) holds for a key
OutputValue(out, key, source_operator, largeBinaryFields) ==
    LET value == convert_r_to_py(rx2(out, key))
    IN  IF Rebinds(key, value, source_operator, largeBinaryFields)
        THEN largebinary(value.v[1])
        ELSE value

\* what a call of extract_tuple_from_r returns once the generator returned out
extract_tuple_from_r(out, source_operator, inputFields, largeBinaryFields) ==
    IF IsEndOfStream(out) THEN [isNone |-> TRUE, row |-> <<>>]
    ELSE LET keys == OutputKeys(out, source_operator, inputFields)
         IN  [isNone |-> FALSE,
              row |-> [i \in DOMAIN keys |->
                         [name |-> keys[i],
                          val |-> OutputValue(out, keys[i], source_operator,
                                              largeBinaryFields)]]]

----------------------------------------------------------------------------
(* LargeBinaryInputStream and LargeBinaryOutputStream (R) *)

\* the bytes of the model's files and writes; "NL" is a line feed
Bytes == {"a", "NL"}

\* the sequences over a set, up to a length
SeqsUpTo(S, n) == UNION { [1..k -> S] : k \in 0..n }

Min(a, b) == IF a < b THEN a ELSE b

Digit == <<"0", "1", "2", "3", "4", "5", "6", "7", "8", "9">>

\* the decimal digits of a natural number
RECURSIVE ToDecimal(_)
ToDecimal(n) ==
    IF n < 10 THEN <<Digit[n + 1]>>
    ELSE ToDecimal(n \div 10) \o <<Digit[(n % 10) + 1]>>

\* R values: a raw vector, a logical, an integer, a character vector
RRaw(bytes) == RVector("RawVector", [i \in DOMAIN bytes |-> <<bytes[i]>>])
RLogical(b) == RVector("BoolVector", <<<<IF b THEN "TRUE" ELSE "FALSE">>>>)
RInteger(n) == RVector("IntVector", <<ToDecimal(n)>>)
RCharacter(lines) == RVector("StrVector", lines)

\* stop("I/O operation on closed stream")
ClosedStreamError == "I/O operation on closed stream"
\* stop("Failed to upload to S3: ", conditionMessage(e))
UploadError == "Failed to upload to S3"
\* R's own errors: readBin's for a negative n, and any use of a connection
\* that was closed
InvalidN == "invalid 'n' argument"
InvalidConnection == "invalid connection"

NoCall == [op |-> "none", wasClosed |-> FALSE, err |-> "", value |-> RNULL,
           io |-> 0, upload |-> "none"]

\* The record of a call: the function, whether close() had been called before
\* it, the error it stopped with ("" when it returned), the value it returned,
\* the reads and writes it performed on the staging file's connection, and
\* its put_object attempt: "none", "ok", "failed".
Called(op, err, value, io, upload) ==
    [op |-> op, wasClosed |-> closeCalls > 0, err |-> err, value |-> value,
     io |-> io, upload |-> upload]

\* the first line of a byte sequence that is left to read: the bytes before the
\* next line feed, and how many bytes reading it consumes
FirstLine(bytes) ==
    LET ends == { i \in DOMAIN bytes : bytes[i] = "NL" }
    IN  IF ends = {} THEN [line |-> bytes, used |-> Len(bytes)]
        ELSE LET e == CHOOSE i \in ends : \A j \in ends : i <= j
             IN  [line |-> SubSeq(bytes, 1, e - 1), used |-> e]

Unread == SubSeq(content, readPos + 1, Len(content))

\* LargeBinaryInputStream's read_func(n)
In_read_func(n) ==
    /\ sdir = "in"
    /\ IF closed THEN
            /\ lastCall' = Called("read", ClosedStreamError, RNULL, 0, "none")
            /\ readPos' = readPos
       ELSE IF file_conn # "open" THEN
            /\ lastCall' = Called("read", InvalidConnection, RNULL, 0, "none")
            /\ readPos' = readPos
       ELSE IF n < 0 THEN
            /\ lastCall' = Called("read", InvalidN, RNULL, 0, "none")
            /\ readPos' = readPos
       ELSE /\ lastCall' = Called("read", "",
                                  RRaw(SubSeq(Unread, 1, Min(n, Len(Unread)))),
                                  1, "none")
            /\ readPos' = readPos + Min(n, Len(Unread))
    /\ UNCHANGED <<sdir, closed, file_conn, temp_file, content, object,
                   closeCalls, uploads, exceptStream>>

\* LargeBinaryInputStream's readline_func(size)
In_readline_func ==
    /\ sdir = "in"
    /\ IF closed THEN
            /\ lastCall' = Called("readline", ClosedStreamError, RNULL, 0, "none")
            /\ readPos' = readPos
       ELSE IF file_conn # "open" THEN
            /\ lastCall' = Called("readline", InvalidConnection, RNULL, 0, "none")
            /\ readPos' = readPos
       ELSE /\ lastCall' =
                 Called("readline", "",
                        RCharacter(IF Unread = <<>> THEN <<>>
                                   ELSE <<FirstLine(Unread).line>>), 1, "none")
            /\ readPos' = readPos + FirstLine(Unread).used
    /\ UNCHANGED <<sdir, closed, file_conn, temp_file, content, object,
                   closeCalls, uploads, exceptStream>>

\* readable_func and writable_func: return(!closed)
In_readable_func ==
    /\ sdir = "in"
    /\ lastCall' = Called("readable", "", RLogical(~closed), 0, "none")
    /\ UNCHANGED <<sdir, closed, file_conn, temp_file, content, readPos, object,
                   closeCalls, uploads, exceptStream>>

Out_writable_func ==
    /\ sdir = "out"
    /\ lastCall' = Called("writable", "", RLogical(~closed), 0, "none")
    /\ UNCHANGED <<sdir, closed, file_conn, temp_file, content, readPos, object,
                   closeCalls, uploads, exceptStream>>

\* seekable_func of either stream: return(FALSE)
seekable_func ==
    /\ sdir \in {"in", "out"}
    /\ lastCall' = Called("seekable", "", RLogical(FALSE), 0, "none")
    /\ UNCHANGED <<sdir, closed, file_conn, temp_file, content, readPos, object,
                   closeCalls, uploads, exceptStream>>

\* closed_func of either stream: return(closed)
closed_func ==
    /\ sdir \in {"in", "out"}
    /\ lastCall' = Called("closed", "", RLogical(closed), 0, "none")
    /\ UNCHANGED <<sdir, closed, file_conn, temp_file, content, readPos, object,
                   closeCalls, uploads, exceptStream>>

CountClose == IF closeCalls < 2 THEN closeCalls + 1 ELSE closeCalls
\* LargeBinaryInputStream's close_func with `closed <- TRUE`: the assignment
\* makes a local of close_func, the stream's flag stays FALSE
In_close_func_LocalAssign ==
    /\ sdir = "in"
    /\ closeCalls' = CountClose
    /\ IF file_conn = "open"
       THEN /\ file_conn' = "closed"
            /\ temp_file' = FALSE
            /\ lastCall' = Called("close", "", RNULL, 0, "none")
       ELSE /\ lastCall' = Called("close", InvalidConnection, RNULL, 0, "none")
            /\ UNCHANGED <<file_conn, temp_file>>
    /\ UNCHANGED <<sdir, closed, content, readPos, object, uploads,
                   exceptStream>>

\* LargeBinaryInputStream's close_func
In_close_func ==
    /\ sdir = "in"
    /\ closeCalls' = CountClose
    /\ IF ~closed
       THEN /\ closed' = TRUE
            /\ IF file_conn = "open"
               THEN /\ file_conn' = "closed"
                    /\ temp_file' = FALSE
                    /\ lastCall' = Called("close", "", RNULL, 0, "none")
               ELSE /\ lastCall' =
                         Called("close", InvalidConnection, RNULL, 0, "none")
                    /\ UNCHANGED <<file_conn, temp_file>>
       ELSE /\ lastCall' = Called("close", "", RNULL, 0, "none")
            /\ UNCHANGED <<closed, file_conn, temp_file>>
    /\ UNCHANGED <<sdir, content, readPos, object, uploads, exceptStream>>

\* LargeBinaryOutputStream's write_func(data)
Out_write_func(data) ==
    /\ sdir = "out"
    /\ IF closed THEN
            /\ lastCall' = Called("write", ClosedStreamError, RNULL, 0, "none")
            /\ content' = content
       ELSE IF file_conn # "open" THEN
            /\ lastCall' = Called("write", InvalidConnection, RNULL, 0, "none")
            /\ content' = content
       ELSE /\ Len(content) + Len(data) <= MaxContent
            /\ lastCall' = Called("write", "", RInteger(Len(data)), 1, "none")
            /\ content' = content \o data
    /\ UNCHANGED <<sdir, closed, file_conn, temp_file, readPos, object,
                   closeCalls, uploads, exceptStream>>

\* LargeBinaryOutputStream's flush_func
Out_flush_func ==
    /\ sdir = "out"
    /\ lastCall' = IF ~closed /\ file_conn # "open"
                   THEN Called("flush", InvalidConnection, RNULL, 0, "none")
                   ELSE Called("flush", "", RNULL, 0, "none")
    /\ UNCHANGED <<sdir, closed, file_conn, temp_file, content, readPos, object,
                   closeCalls, uploads, exceptStream>>

CountUpload == IF uploads < 2 THEN uploads + 1 ELSE uploads

\* close_func whose error handler only stops: the staging file stays after a
\* failed upload
Out_close_func_KeepsFileOnFailure(upload_ok) ==
    /\ sdir = "out"
    /\ closeCalls' = CountClose
    /\ IF ~closed
       THEN /\ closed' = TRUE
            /\ file_conn' = "closed"
            /\ uploads' = CountUpload
            /\ IF upload_ok
               THEN /\ object' = [present |-> TRUE, bytes |-> content]
                    /\ temp_file' = FALSE
                    /\ lastCall' = Called("close", "", RNULL, 0, "ok")
               ELSE /\ object' = object
                    /\ temp_file' = temp_file
                    /\ lastCall' = Called("close", UploadError, RNULL, 0, "failed")
       ELSE /\ lastCall' = Called("close", "", RNULL, 0, "none")
            /\ UNCHANGED <<closed, file_conn, temp_file, object, uploads>>
    /\ UNCHANGED <<sdir, content, readPos, exceptStream>>

\* close_func that sets closed only after the upload: a failed upload leaves
\* the stream open, and the next close() flushes a closed connection
Out_close_func_FlagAfterUpload(upload_ok) ==
    /\ sdir = "out"
    /\ closeCalls' = CountClose
    /\ IF ~closed
       THEN IF file_conn # "open"
            THEN /\ lastCall' =
                      Called("close", InvalidConnection, RNULL, 0, "none")
                 /\ UNCHANGED <<closed, file_conn, temp_file, object, uploads>>
            ELSE /\ file_conn' = "closed"
                 /\ uploads' = CountUpload
                 /\ temp_file' = FALSE
                 /\ IF upload_ok
                    THEN /\ object' = [present |-> TRUE, bytes |-> content]
                         /\ closed' = TRUE
                         /\ lastCall' = Called("close", "", RNULL, 0, "ok")
                    ELSE /\ object' = object
                         /\ closed' = closed
                         /\ lastCall' =
                              Called("close", UploadError, RNULL, 0, "failed")
       ELSE /\ lastCall' = Called("close", "", RNULL, 0, "none")
            /\ UNCHANGED <<closed, file_conn, temp_file, object, uploads>>
    /\ UNCHANGED <<sdir, content, readPos, exceptStream>>

\* LargeBinaryOutputStream's close_func; put_object returns (upload_ok) or
\* signals an error
Out_close_func(upload_ok) ==
    /\ sdir = "out"
    /\ closeCalls' = CountClose
    /\ IF ~closed
       THEN /\ closed' = TRUE
            /\ file_conn' = "closed"
            /\ uploads' = CountUpload
            /\ temp_file' = FALSE
            /\ IF upload_ok
               THEN /\ object' = [present |-> TRUE, bytes |-> content]
                    /\ lastCall' = Called("close", "", RNULL, 0, "ok")
               ELSE /\ object' = object
                    /\ lastCall' = Called("close", UploadError, RNULL, 0, "failed")
       ELSE /\ lastCall' = Called("close", "", RNULL, 0, "none")
            /\ UNCHANGED <<closed, file_conn, temp_file, object, uploads>>
    /\ UNCHANGED <<sdir, content, readPos, exceptStream>>

\* no stream
StreamIdle ==
    /\ sdir = "none"
    /\ closed = FALSE
    /\ file_conn = "none"
    /\ temp_file = FALSE
    /\ content = <<>>
    /\ readPos = 0
    /\ object = [present |-> FALSE, bytes |-> <<>>]
    /\ closeCalls = 0
    /\ uploads = 0
    /\ lastCall = NoCall

\* A stream just returned by LargeBinaryInputStream(uri), its staging file
\* holding the object's bytes, or by LargeBinaryOutputStream(uri), its staging
\* file empty.
StreamInit ==
    /\ sdir \in {"in", "out"}
    /\ closed = FALSE
    /\ file_conn = "open"
    /\ temp_file = TRUE
    /\ content \in (IF sdir = "in" THEN SeqsUpTo(Bytes, MaxContent) ELSE {<<>>})
    /\ readPos = 0
    /\ object = IF sdir = "in" THEN [present |-> TRUE, bytes |-> content]
                ELSE [present |-> FALSE, bytes |-> <<>>]
    /\ closeCalls = 0
    /\ uploads = 0
    /\ lastCall = NoCall

StreamNext ==
    \/ \E n \in -1..MaxContent : In_read_func(n)
    \/ In_readline_func
    \/ In_readable_func
    \/ In_close_func
    \/ \E data \in SeqsUpTo(Bytes, MaxData) : Out_write_func(data)
    \/ Out_writable_func
    \/ Out_flush_func
    \/ \E upload_ok \in BOOLEAN : Out_close_func(upload_ok)
    \/ seekable_func
    \/ closed_func

----------------------------------------------------------------------------
(* largebinary (R): bind with an argument, mint without *)

\* DEFAULT_BUCKET <- "texera-large-binaries"
DEFAULT_BUCKET ==
    <<"t", "e", "x", "e", "r", "a", "-", "l", "a", "r", "g", "e", "-",
      "b", "i", "n", "a", "r", "i", "e", "s">>

\* "/objects/" of paste0("s3://", DEFAULT_BUCKET, "/objects/", ...)
ObjectsPath == <<"/", "o", "b", "j", "e", "c", "t", "s", "/">>

\* c(0:9, letters[1:6])
HexChars == Digit \o <<"a", "b", "c", "d", "e", "f">>

\* the length of generate_uuid's sample
UuidLen == 32

\* generate_uuid(): sample() draws from the session's random number generator,
\* so the identifier is a function of the generator's state; states differ in
\* what they draw
generate_uuid(state) ==
    [i \in 1..UuidLen |-> HexChars[((state + i) % 16) + 1]]

\* the strings the model's guest routines pass to largebinary: a URI, a
\* string that is no URI, the prefix cut short, a string that holds the prefix
\* further on, and NA_character_
StrS3Short == <<"s", "3", ":", "/">>
StrXUri == <<"x">> \o UriK
NA_character_ == <<"NA">>

\* the non-NULL arguments: character vectors of every length up to two, and
\* values that are no character vector
BindArguments ==
    { RCharacter(lines) :
        lines \in SeqsUpTo({UriK, StrAb, StrS3Short, StrXUri, NA_character_}, 2) }
    \cup { RVector("IntVector", <<<<"1">>>>), RVector("BoolVector", <<<<"TRUE">>>>),
           RVector("ListVector", <<UriK>>), RVector("RawVector", <<>>) }

is_character(uri) == uri.t = "StrVector"
length(uri) == Len(uri.v)

\* grepl("^s3://", uri) for a character vector of length one
grepl_s3(uri) == uri.v[1] # NA_character_ /\ startswith(uri.v[1], S3Prefix)

\* grepl("s3://", uri): the pattern without its anchor
grepl_s3_Unanchored(uri) ==
    /\ uri.v[1] # NA_character_
    /\ \E i \in 0..Len(uri.v[1]) :
          startswith(SubSeq(uri.v[1], i + 1, Len(uri.v[1])), S3Prefix)

MustBeSingleString == "uri must be a single character string"
MustStartWithS3 == "largebinary URI must start with 's3://'"

\* largebinary(uri) for a uri that is not NULL, with the s3:// test unanchored
largebinary_bind_Unanchored(uri) ==
    IF ~is_character(uri) \/ length(uri) # 1
    THEN [err |-> MustBeSingleString, value |-> RNULL]
    ELSE IF ~grepl_s3_Unanchored(uri)
    THEN [err |-> MustStartWithS3, value |-> RNULL]
    ELSE [err |-> "", value |-> uri]

\* largebinary(uri) for a uri that is not NULL: the two else-if branches and
\* return(uri)
largebinary_bind(uri) ==
    IF ~is_character(uri) \/ length(uri) # 1
    THEN [err |-> MustBeSingleString, value |-> RNULL]
    ELSE IF ~grepl_s3(uri)
    THEN [err |-> MustStartWithS3, value |-> RNULL]
    ELSE [err |-> "", value |-> uri]

\* largebinary(): the URI pasted from the clock's milliseconds and the
\* identifier
largebinary_mint(timestamp_ms, unique_id) ==
    S3Prefix \o DEFAULT_BUCKET \o ObjectsPath \o ToDecimal(timestamp_ms)
        \o <<"/">> \o unique_id

NoLargebinaryCall ==
    [kind |-> "none", arg |-> RNULL, err |-> "", value |-> RNULL,
     requests |-> 0, head |-> "none", put |-> "none"]

\* largebinary(uri) called with a uri that is not NULL
Bind(uri) ==
    /\ lbpc = "ready"
    /\ lastLb' = [kind |-> "bind", arg |-> uri,
                  err |-> largebinary_bind(uri).err,
                  value |-> largebinary_bind(uri).value,
                  requests |-> 0, head |-> "none", put |-> "none"]
    /\ UNCHANGED <<lbpc, clock, bucket, rng, minted, exceptLb>>

\* largebinary() called without argument.  head_bucket returns or signals an
\* error; in the second case put_bucket is tried, and creates the bucket or
\* signals an error that is ignored.
Mint(head, put) ==
    /\ lbpc = "ready"
    /\ Len(minted) < MaxMints
    /\ bucket' = IF head = "error" /\ put = "ok" THEN TRUE ELSE bucket
    /\ rng' = rng + 1
    /\ minted' = Append(minted, largebinary_mint(clock, generate_uuid(rng)))
    /\ lastLb' = [kind |-> "mint", arg |-> RNULL, err |-> "",
                  value |-> RCharacter(
                               <<largebinary_mint(clock, generate_uuid(rng))>>),
                  requests |-> IF head = "error" THEN 2 ELSE 1,
                  head |-> head,
                  put |-> IF head = "error" THEN put ELSE "none"]
    /\ UNCHANGED <<lbpc, clock, exceptLb>>

\* the guest routine's set.seed(seed): the generator is back in the state
\* it had after the same call before
set_seed ==
    /\ lbpc = "ready"
    /\ rng # 0
    /\ rng' = 0
    /\ UNCHANGED <<lbpc, clock, bucket, minted, lastLb, exceptLb>>

\* Sys.time() moves on
Tick ==
    /\ lbpc = "ready"
    /\ \E t \in (clock + 1)..MaxClock : clock' = t
    /\ UNCHANGED <<lbpc, bucket, rng, minted, lastLb, exceptLb>>

\* largebinary not in use
LargebinaryIdle ==
    /\ lbpc = "idle"
    /\ clock = 0
    /\ bucket = FALSE
    /\ rng = 0
    /\ minted = <<>>
    /\ lastLb = NoLargebinaryCall

\* an R session with largebinary defined, the default bucket there or not
LargebinaryInit ==
    /\ lbpc = "ready"
    /\ clock = 0
    /\ bucket \in BOOLEAN
    /\ rng = 0
    /\ minted = <<>>
    /\ lastLb = NoLargebinaryCall

LargebinaryNext ==
    \/ \E uri \in BindArguments : Bind(uri)
    \/ \E head \in {"ok", "error"}, put \in {"ok", "error"} : Mint(head, put)
    \/ set_seed
    \/ Tick

----------------------------------------------------------------------------
(* _setup_r_large_binary_apis and the four constructors *)

\* the four executors
ExecutorClasses ==
    {"RTupleExecutor", "RTupleSourceExecutor", "RTableExecutor",
     "RTableSourceExecutor"}

\* the attributes of StorageConfig the setup reads
ConfigAttributes ==
    {"S3_ENDPOINT", "S3_REGION", "S3_AUTH_USERNAME", "S3_AUTH_PASSWORD"}

\* the environment variable the setup writes for each of them
EnvName(attr) == "STORAGE_" \o attr

\* the second argument of os.getenv for each
EnvDefault(attr) ==
    CASE attr = "S3_ENDPOINT" -> "http://localhost:9000"
      [] attr = "S3_REGION" -> "us-west-2"
      [] attr = "S3_AUTH_USERNAME" -> "texera_minio"
      [] attr = "S3_AUTH_PASSWORD" -> "password"

\* Python's None, and a variable that is not in os.environ
None == "<None>"
Unset == "<unset>"

\* StorageConfig before it is initialized, and the configurations it is
\* initialized with: every attribute a value, the region possibly empty
Uninitialized == [attr \in ConfigAttributes |-> None]
Configurations ==
    { [attr \in ConfigAttributes |->
          IF attr = "S3_REGION" THEN region ELSE "cfg:" \o attr] :
        region \in {"", "cfg:S3_REGION"} }

\* x or y
Or(x, y) == IF x = None \/ x = "" THEN y ELSE x

\* os.getenv(name, default)
getenv(env, name, default) == IF env[name] = Unset THEN default ELSE env[name]

\* os.environ after _setup_r_large_binary_apis's four assignments
setup_environ(config, env) ==
    [name \in DOMAIN env |->
        LET attr == CHOOSE a \in ConfigAttributes : EnvName(a) = name
        IN  Or(config[attr], getenv(env, name, EnvDefault(attr)))]

SetupEvent(cls, config, env) ==
    [ev |-> "setup", cls |-> cls, config |-> config, environ |-> env]
LoadEvent(cls, config, env) ==
    [ev |-> "load", cls |-> cls, config |-> config, environ |-> env]

\* A constructor that evaluates r_code first and sets up afterwards
ConstructSetup_LoadFirst(cls) ==
    /\ ppc = "running"
    /\ constructing = "none"
    /\ Len(ctorLog) + 2 <= 2 * MaxExecutors
    /\ environ' = setup_environ(StorageConfig, environ)
    /\ ctorLog' = ctorLog \o <<LoadEvent(cls, StorageConfig, environ),
                              SetupEvent(cls, StorageConfig, environ')>>
    /\ UNCHANGED <<ppc, constructing, StorageConfig, aws_s3, r_functions,
                   exceptSetup>>

\* __init__ of an executor up to the return of _setup_r_large_binary_apis:
\* the environment is written, then the R code of the setup is evaluated,
\* which stops when the aws.s3 package is missing
ConstructSetup(cls) ==
    /\ ppc = "running"
    /\ constructing = "none"
    /\ Len(ctorLog) + 2 <= 2 * MaxExecutors
    /\ environ' = setup_environ(StorageConfig, environ)
    /\ IF aws_s3
       THEN /\ r_functions' = TRUE
            /\ constructing' = cls
            /\ ctorLog' = Append(ctorLog, SetupEvent(cls, StorageConfig, environ'))
       ELSE /\ r_functions' = r_functions
            /\ constructing' = "none"
            /\ ctorLog' = Append(ctorLog, [SetupEvent(cls, StorageConfig, environ')
                                             EXCEPT !.ev = "setup_raised"])
    /\ UNCHANGED <<ppc, StorageConfig, aws_s3, exceptSetup>>

\* the rest of __init__: self._func = robjects.r(r_code)
ConstructLoad ==
    /\ ppc = "running"
    /\ constructing # "none"
    /\ constructing' = "none"
    /\ ctorLog' = Append(ctorLog, LoadEvent(constructing, StorageConfig, environ))
    /\ UNCHANGED <<ppc, StorageConfig, environ, aws_s3, r_functions,
                   exceptSetup>>

\* the engine initializes StorageConfig, once
InitializeStorageConfig ==
    /\ ppc = "running"
    /\ constructing = "none"
    /\ StorageConfig = Uninitialized
    /\ StorageConfig' \in Configurations
    /\ UNCHANGED <<ppc, constructing, environ, aws_s3, r_functions, ctorLog,
                   exceptSetup>>

\* no process
SetupIdle ==
    /\ ppc = "idle"
    /\ constructing = "none"
    /\ StorageConfig = Uninitialized
    /\ environ = [name \in {EnvName(a) : a \in ConfigAttributes} |-> Unset]
    /\ aws_s3 = TRUE
    /\ r_functions = FALSE
    /\ ctorLog = <<>>

\* a process that has constructed no executor yet
SetupInit ==
    /\ ppc = "running"
    /\ constructing = "none"
    /\ StorageConfig \in {Uninitialized} \cup Configurations
    /\ environ \in [{EnvName(a) : a \in ConfigAttributes} ->
                       {Unset, "env"}]
    /\ aws_s3 \in BOOLEAN
    /\ r_functions = FALSE
    /\ ctorLog = <<>>

SetupNext ==
    \/ \E cls \in ExecutorClasses : ConstructSetup(cls)
    \/ ConstructLoad
    \/ InitializeStorageConfig

----------------------------------------------------------------------------
(* The guest calls of the operator instances of one process *)

\* the executors whose call returns a generator the loop then invokes
RowClasses == {"RTupleExecutor", "RTupleSourceExecutor"}

\* Where the execution context of an instance is in process_tuple,
\* process_table or produce:
\*   "idle"       not called yet
\*   "func"       inside self._func(...), the user callable
\*   "loop"       in the while loop, outside the guest runtime
\*   "generator"  inside output_r_generator(), called by extract_tuple_from_r
\*   "done"       returned
\* The code takes no lock before either guest call and releases none after.

\* self._func(...) is called
EnterFunc(i) ==
    /\ i \in DOMAIN operators
    /\ operators[i].at = "idle"
    /\ operators' = [operators EXCEPT ![i].at = "func"]
    /\ UNCHANGED exceptOperators

\* self._func(...) returns: the generator of a row executor, the table of a
\* table executor
ReturnFunc(i) ==
    /\ i \in DOMAIN operators
    /\ operators[i].at = "func"
    /\ operators' = [operators EXCEPT
                        ![i].at = IF operators[i].cls \in RowClasses
                                  THEN "loop" ELSE "done"]
    /\ UNCHANGED exceptOperators

\* extract_tuple_from_r calls output_r_generator()
EnterGenerator(i) ==
    /\ i \in DOMAIN operators
    /\ operators[i].at = "loop"
    /\ operators' = [operators EXCEPT ![i].at = "generator"]
    /\ UNCHANGED exceptOperators

\* output_r_generator() returns a record, or the end of the stream
ReturnGenerator(i, ended) ==
    /\ i \in DOMAIN operators
    /\ operators[i].at = "generator"
    /\ operators' = [operators EXCEPT
                        ![i].at = IF ended THEN "done" ELSE "loop"]
    /\ UNCHANGED exceptOperators

\* no operator instance
OperatorsIdle == operators = <<>>

\* the operator instances of a process, each about to be called in its own
\* execution context
OperatorsInit ==
    operators \in [1..MaxInstances -> [cls : ExecutorClasses, at : {"idle"}]]

OperatorsNext ==
    \E i \in 1..MaxInstances :
        \/ EnterFunc(i)
        \/ ReturnFunc(i)
        \/ EnterGenerator(i)
        \/ \E ended \in BOOLEAN : ReturnGenerator(i, ended)

----------------------------------------------------------------------------
(* A call of r_utils.convert_r_to_py *)

\* the vector classes of rpy2.robjects.vectors the guest values are of
VectorClasses ==
    {"BoolVector", "IntVector", "FloatVector", "POSIXct", "StrVector",
     "ListVector", "ByteVector"}

\* the values convert_r_to_py is called with: a reference, a vector of every
\* class and of every length up to MaxVector, R's NULL, and a function
GuestValues ==
    { RVector(cls, elems) :
        cls \in VectorClasses, elems \in SeqsUpTo({<<"1">>, <<"2">>}, MaxVector) }
    \cup { largebinary(UriK), RNULL, [t |-> "SexpClosure", v |-> <<>>] }

\* convert_r_to_py(value), from call to return or raise
ConvertValue ==
    /\ cvpc = "called"
    /\ cvpc' = "returned"
    /\ converted' = convert_r_to_py(cv_value)
    /\ UNCHANGED <<cv_value, exceptConvert>>

\* no call
ConvertIdle ==
    /\ cvpc = "idle"
    /\ cv_value = RNULL
    /\ converted = RNULL

\* convert_r_to_py just called with a value
ConvertInit ==
    /\ cvpc = "called"
    /\ cv_value \in GuestValues
    /\ converted = RNULL

ConvertNext == ConvertValue

----------------------------------------------------------------------------
(* RTableExecutor._add_large_binary_metadata_to_schema *)

\* the names of a table's columns, by position
ColumnNames == <<"c1", "c2", "c3", "c4">>

\* the metadata key of the type tag
TEXERA_TYPE_METADATA_KEY == "texera_type"

\* pa.string()
pa_string == "string"

\* The metadata of a field, a set of <<key, value>>; None and the empty
\* metadata are both the empty set.  The model's fields have none, the tag,
\* another value under the tag's key, or the tag beside another key.
TagOnly == {<<TEXERA_TYPE_METADATA_KEY, LARGE_BINARY_METADATA_VALUE>>}
FieldMetadata ==
    { {}, TagOnly, {<<TEXERA_TYPE_METADATA_KEY, "OTHER">>},
      TagOnly \cup {<<"comment", "x">>} }

\* field.metadata.get(key)
metadata_get(metadata, key) ==
    IF \E kv \in metadata : kv[1] = key
    THEN (CHOOSE kv \in metadata : kv[1] = key)[2]
    ELSE None

\* The Arrow tables: up to MaxSchemaFields fields [name, type, nullable,
\* metadata] named by position, the schema with or without metadata of its
\* own (pandas'), and one column of data per field.
ArrowTables ==
    { [fields |-> [i \in DOMAIN fs |->
                      [name |-> ColumnNames[i], type |-> fs[i].type,
                       nullable |-> fs[i].nullable, metadata |-> fs[i].metadata]],
       schema_metadata |-> sm,
       columns |-> [i \in DOMAIN fs |-> <<"data", ColumnNames[i]>>]] :
        fs \in UNION { [1..n -> [type : {pa_string, "int64"},
                                 nullable : BOOLEAN,
                                 metadata : FieldMetadata]] :
                          n \in 1..MaxSchemaFields },
        sm \in BOOLEAN }

\* has_metadata of the loop
has_metadata(field) ==
    /\ field.metadata # {}
    /\ metadata_get(field.metadata, TEXERA_TYPE_METADATA_KEY)
          = LARGE_BINARY_METADATA_VALUE

\* the field is one the loop makes a new field for
needs_tag(field, lb_columns) ==
    /\ field.name \in lb_columns
    /\ field.type = pa_string
    /\ ~has_metadata(field)

\* pa.field(field.name, field.type, metadata={KEY: VALUE})
tagged_field(field) ==
    [name |-> field.name, type |-> field.type, nullable |-> TRUE,
     metadata |-> TagOnly]

\* the function rebuilding whenever a named string field is there, tagged
\* already or not
add_large_binary_metadata_to_schema_AlwaysRebuilds(table, lb_columns) ==
    IF lb_columns = {} THEN [table |-> table, same |-> TRUE]
    ELSE IF \E i \in DOMAIN table.fields :
               /\ table.fields[i].name \in lb_columns
               /\ table.fields[i].type = pa_string
    THEN [table |->
             [fields |-> [i \in DOMAIN table.fields |->
                             IF /\ table.fields[i].name \in lb_columns
                                /\ table.fields[i].type = pa_string
                             THEN tagged_field(table.fields[i])
                             ELSE table.fields[i]],
              schema_metadata |-> FALSE,
              columns |-> table.columns],
          same |-> FALSE]
    ELSE [table |-> table, same |-> TRUE]

\* _add_large_binary_metadata_to_schema(table, lb_columns): the
\* table it returns, and whether that is the table it was given
add_large_binary_metadata_to_schema(table, lb_columns) ==
    IF lb_columns = {} THEN [table |-> table, same |-> TRUE]
    ELSE IF \E i \in DOMAIN table.fields :
               needs_tag(table.fields[i], lb_columns)
    THEN [table |->
             [fields |-> [i \in DOMAIN table.fields |->
                             IF needs_tag(table.fields[i], lb_columns)
                             THEN tagged_field(table.fields[i])
                             ELSE table.fields[i]],
              schema_metadata |-> FALSE,
              columns |-> table.columns],
          same |-> FALSE]
    ELSE [table |-> table, same |-> TRUE]

NoTable == [fields |-> <<>>, schema_metadata |-> FALSE, columns |-> <<>>]
NoResult == [table |-> NoTable, same |-> TRUE]

\* a call with the table and the column set
AddMetadata ==
    /\ schpc = "called"
    /\ schpc' = "returned"
    /\ sch_result' =
          add_large_binary_metadata_to_schema(sch_table, sch_columns)
    /\ UNCHANGED <<sch_table, sch_columns, sch_again, exceptSchema>>

\* a second call, with the table the first returned and the same column set
AddMetadataAgain ==
    /\ schpc = "returned"
    /\ schpc' = "returned twice"
    /\ sch_again' =
          add_large_binary_metadata_to_schema(sch_result.table, sch_columns)
    /\ UNCHANGED <<sch_table, sch_columns, sch_result, exceptSchema>>

\* no call
SchemaIdle ==
    /\ schpc = "idle"
    /\ sch_table = NoTable
    /\ sch_columns = {}
    /\ sch_result = NoResult
    /\ sch_again = NoResult

\* _add_large_binary_metadata_to_schema just called; the column set names
\* columns of the table or not
SchemaInit ==
    /\ schpc = "called"
    /\ sch_table \in ArrowTables
    /\ sch_columns \in SUBSET { ColumnNames[i] : i \in 1..(MaxSchemaFields + 1) }
    /\ sch_result = NoResult
    /\ sch_again = NoResult

SchemaNext == AddMetadata \/ AddMetadataAgain

----------------------------------------------------------------------------
(* process_tuple and produce as Python generators *)

NoneResult == [isNone |-> TRUE, row |-> <<>>]

\* the generator's position after one more return: a generator that signalled
\* the end keeps signalling it, one that never does starts its returns again
NextGenPos(sc, pos) ==
    IF pos < Len(sc) THEN pos + 1
    ELSE IF sc[pos] \in EndBehaviours THEN pos
    ELSE 1

\* The guest records process_tuple builds, by input row: BuildInputRList,
\* evaluated once per row.
InputRListOf == [row \in Rows |-> BuildInputRList(row)]

\* What extract_tuple_from_r(output_r_generator, False, input_fields,
\* large_binary_fields) returns in process_tuple's loop, by input row and by
\* what the guest generator does at that call: evaluated once per pair.
TupleResults ==
    [row \in Rows |->
        [beh \in RecordBehaviours("tuple") \cup EndBehaviours |->
            extract_tuple_from_r(GuestReturn(beh, InputRListOf[row]), FALSE,
                                 NamesOf(row), GroupFields(row, "large_binary"))]]

\* What extract_tuple_from_r(output_r_generator, True) returns in produce's
\* loop, by what the guest generator does at that call.
SourceResults ==
    [beh \in RecordBehaviours("source") \cup EndBehaviours |->
        extract_tuple_from_r(GuestReturn(beh, <<>>), TRUE, <<>>, <<>>)]

\* LoopToYield with the break before the yield: None is never yielded
LoopToYield_BreakBeforeYield(res) ==
    /\ genPos' = NextGenPos(script, genPos)
    /\ genCalls' = IF genCalls < YieldCap(kind) THEN genCalls + 1 ELSE genCalls
    /\ output_py_tuple' = res
    /\ IF res.isNone
       THEN pc' = "done" /\ yielded' = yielded
       ELSE /\ pc' = "suspended"
            /\ yielded' = IF Len(yielded) < YieldCap(kind)
                          THEN Append(yielded, res) ELSE yielded

\* One pass of `while True` up to its yield: the guest generator is invoked
\* through extract_tuple_from_r, which returns res; then the row is yielded, or
\* None at the end of the stream.
LoopToYield(res) ==
    /\ genPos' = NextGenPos(script, genPos)
    /\ genCalls' = IF genCalls < YieldCap(kind) THEN genCalls + 1 ELSE genCalls
    /\ output_py_tuple' = res
    /\ IF AnyRaised(res.row)
       THEN pc' = "raised" /\ yielded' = yielded
       ELSE /\ pc' = "suspended"
            /\ yielded' = IF Len(yielded) < YieldCap(kind)
                          THEN Append(yielded, res) ELSE yielded

\* RTupleExecutor.process_tuple from its first next() to its first yield
ProcessTupleStart ==
    /\ kind = "tuple"
    /\ pc = "created"
    /\ input_fields' = NamesOf(tuple_)
    /\ non_binary_fields' = GroupFields(tuple_, "non_binary")
    /\ binary_fields' = GroupFields(tuple_, "binary")
    /\ large_binary_fields' = GroupFields(tuple_, "large_binary")
    /\ input_r_list' = InputRListOf[tuple_]
    /\ IF AnyRaised(InputRListOf[tuple_])
       THEN /\ pc' = "raised"
            /\ UNCHANGED <<funcCalls, genPos, genCalls, output_py_tuple, yielded>>
       ELSE /\ funcCalls' = funcCalls + 1
            /\ LoopToYield(TupleResults[tuple_][script[genPos]])
    /\ UNCHANGED <<kind, tuple_, script, stopIterations, tableVars, guestVars>>

\* RTupleSourceExecutor.produce from its first next() to its first yield
ProduceStart ==
    /\ kind = "source"
    /\ pc = "created"
    /\ funcCalls' = funcCalls + 1
    /\ LoopToYield(SourceResults[script[genPos]])
    /\ UNCHANGED <<kind, tuple_, script, input_fields, non_binary_fields,
                   binary_fields, large_binary_fields, input_r_list,
                   stopIterations, tableVars, guestVars>>

\* ResumeLoop calling the guest callable again on every pass of the loop
ResumeLoop_CallsAgain ==
    /\ pc = "suspended"
    /\ ~output_py_tuple.isNone
    /\ funcCalls' = IF funcCalls < 2 THEN funcCalls + 1 ELSE funcCalls
    /\ LoopToYield(IF kind = "source" THEN SourceResults[script[genPos]]
                   ELSE TupleResults[tuple_][script[genPos]])
    /\ UNCHANGED <<kind, tuple_, script, input_fields, non_binary_fields,
                   binary_fields, large_binary_fields, input_r_list,
                   stopIterations, tableVars, guestVars>>

\* next() on the suspended generator after a row: the loop goes round
ResumeLoop ==
    /\ pc = "suspended"
    /\ ~output_py_tuple.isNone
    /\ LoopToYield(IF kind = "source" THEN SourceResults[script[genPos]]
                   ELSE TupleResults[tuple_][script[genPos]])
    /\ UNCHANGED <<kind, tuple_, script, input_fields, non_binary_fields,
                   binary_fields, large_binary_fields, input_r_list, funcCalls,
                   stopIterations, tableVars, guestVars>>

\* ResumeBreak without the break: the loop goes round after None as well
ResumeBreak_LoopsOn ==
    /\ pc = "suspended"
    /\ output_py_tuple.isNone
    /\ LoopToYield(IF kind = "source" THEN SourceResults[script[genPos]]
                   ELSE TupleResults[tuple_][script[genPos]])
    /\ UNCHANGED <<kind, tuple_, script, input_fields, non_binary_fields,
                   binary_fields, large_binary_fields, input_r_list, funcCalls,
                   stopIterations, tableVars, guestVars>>

\* next() on the suspended generator after None: break, the generator ends
ResumeBreak ==
    /\ pc = "suspended"
    /\ output_py_tuple.isNone
    /\ pc' = "done"
    /\ UNCHANGED <<kind, tuple_, script, input_fields, non_binary_fields,
                   binary_fields, large_binary_fields, input_r_list, funcCalls,
                   genPos, genCalls, output_py_tuple, yielded, stopIterations,
                   tableVars, guestVars>>

\* next() on the generator that has ended: StopIteration, no code of
\* process_tuple or produce runs
ResumeDone ==
    /\ pc = "done"
    /\ stopIterations < MaxRequestsAfterEnd
    /\ stopIterations' = stopIterations + 1
    /\ UNCHANGED <<kind, tuple_, script, pc, input_fields, non_binary_fields,
                   binary_fields, large_binary_fields, input_r_list, funcCalls,
                   genPos, genCalls, output_py_tuple, yielded, tableVars,
                   guestVars>>

\* the guest-side functions not in use
GuestIdle ==
    /\ StreamIdle /\ LargebinaryIdle /\ SetupIdle /\ OperatorsIdle
    /\ ConvertIdle /\ SchemaIdle

\* no call of process_table
ProcessIdle ==
    /\ ptpc = "idle"
    /\ pt_table = <<>>
    /\ input_large_binary_columns = {}
    /\ input_pyarrow_table = NoTable
    /\ output_pandas_df = <<>>
    /\ output_large_binary_columns = {}
    /\ output_pyarrow_table = NoTable
    /\ pt_rows = 0

\* the table marshaller at rest
TableIdle ==
    /\ tpc = "idle"
    /\ df_in = <<>>
    /\ df = <<>>
    /\ large_binary_columns = {}
    /\ ProcessIdle

\* a generator object just returned by process_tuple(tuple_, port) or produce()
RowInit ==
    /\ kind \in {"tuple", "source"}
    /\ tuple_ \in (IF kind = "tuple" THEN Rows ELSE {<<>>})
    /\ script \in Scripts(kind)
    /\ pc = "created"
    /\ input_fields = <<>>
    /\ non_binary_fields = <<>>
    /\ binary_fields = <<>>
    /\ large_binary_fields = <<>>
    /\ input_r_list = <<>>
    /\ funcCalls = 0
    /\ genPos = 1
    /\ genCalls = 0
    /\ output_py_tuple = NoneResult
    /\ yielded = <<>>
    /\ stopIterations = 0

Init == RowInit /\ TableIdle /\ GuestIdle

Next ==
    ProcessTupleStart \/ ProduceStart \/ ResumeLoop \/ ResumeBreak \/ ResumeDone

Spec == Init /\ [][Next]_vars

\* the engine drains the iterator it was given
FairSpec == Spec /\ WF_vars(Next)

----------------------------------------------------------------------------
(* RTableExecutor._convert_largebinary_to_string_in_dataframe *)

\* what a cell of a data frame holds: null, a reference, an s3:// string,
\* another string
CellValues == {PyNone, largebinary(UriK), PyStr(UriM), PyStr(StrAb)}

\* the data frames: 1..MaxCols columns of the same length, MaxCells cells at most
DataFrames ==
    { [c \in DOMAIN cols |-> [name |-> ColumnNames[c], values |-> cols[c]]] :
        cols \in UNION { [1..shape[1] -> [1..shape[2] -> CellValues]] :
                            shape \in { sh \in (1..MaxCols) \X (0..MaxCells) :
                                           sh[1] * sh[2] <= MaxCells } } }

\* value.startswith("s3://") for a value that is a str
IsS3String(value) ==
    isinstance(value, "str") /\ startswith(value.v[1], S3Prefix)

\* df[col].dropna(): the values that are not null
dropna(values) == SelectSeq(values, LAMBDA x : ~isinstance(x, "none"))

\* s3_uri_count: the non-null values that are s3:// strings
s3_uri_count(non_null_values) == Len(SelectSeq(non_null_values, IsS3String))

\* (s3_uri_count / len(non_null_values)) >= 0.8, in tenths: the quotient of two
\* small integers is below 0.8 or is the double 0.8 itself
AtLeastEightTenths(count, total) == 10 * count >= 8 * total

\* the loop body's test that adds the column to large_binary_columns
ColumnDetected(values) ==
    /\ Len(values) > 0
    /\ LET first_val == values[1]
       IN  \/ isinstance(first_val, "largebinary")
           \/ /\ IsS3String(first_val)
              /\ LET non_null_values == dropna(values)
                     count == s3_uri_count(non_null_values)
                 IN  /\ Len(non_null_values) > 0
                     /\ count > 0
                     /\ AtLeastEightTenths(count, Len(non_null_values))

\* the column the loop body leaves in df: x.uri for every reference, when the
\* first value is a reference
ColumnConverted(values) ==
    IF Len(values) > 0 /\ isinstance(values[1], "largebinary")
    THEN [i \in DOMAIN values |->
            IF isinstance(values[i], "largebinary") THEN PyStr(values[i].v[1])
            ELSE values[i]]
    ELSE values

\* _convert_largebinary_to_string_in_dataframe(df_in), from call to return
ConvertDataframe ==
    /\ tpc = "called"
    /\ df' = [c \in DOMAIN df_in |->
                [name |-> df_in[c].name,
                 values |-> ColumnConverted(df_in[c].values)]]
    /\ large_binary_columns' =
          { df_in[c].name : c \in { k \in DOMAIN df_in :
                                      ColumnDetected(df_in[k].values) } }
    /\ tpc' = "returned"
    /\ UNCHANGED <<df_in, processVars, rowVars, guestVars>>

\* the row marshaller at rest
RowIdle ==
    /\ kind = "tuple"
    /\ tuple_ = <<>>
    /\ script = <<>>
    /\ pc = "idle"
    /\ input_fields = <<>>
    /\ non_binary_fields = <<>>
    /\ binary_fields = <<>>
    /\ large_binary_fields = <<>>
    /\ input_r_list = <<>>
    /\ funcCalls = 0
    /\ genPos = 1
    /\ genCalls = 0
    /\ output_py_tuple = [isNone |-> TRUE, row |-> <<>>]
    /\ yielded = <<>>
    /\ stopIterations = 0

\* a call of _convert_largebinary_to_string_in_dataframe with a data frame
TableInit ==
    /\ tpc = "called"
    /\ df_in \in DataFrames
    /\ df = df_in
    /\ large_binary_columns = {}
    /\ ProcessIdle

TableSpecInit == RowIdle /\ TableInit /\ GuestIdle

TableNext == ConvertDataframe

TableSpec == TableSpecInit /\ [][TableNext]_vars

----------------------------------------------------------------------------
(* RTableExecutor.process_table *)

\* The data frames of process_table: columns [name, dtype, values] named by
\* position, of the same length.  The input table's columns are of dtype
\* object and hold None, references and strings.
InputTables ==
    { [c \in DOMAIN cols |->
          [name |-> ColumnNames[c], dtype |-> "object", values |-> cols[c]]] :
        cols \in UNION { [1..shape[1] -> [1..shape[2] -> CellValues]] :
                            shape \in { sh \in (1..MaxTableCols) \X (0..MaxTableCells) :
                                           sh[1] * sh[2] <= MaxTableCells } } }

\* The data frames output_pyarrow_table.to_pandas() gives for what the guest
\* routine returned: a column is of dtype int64 and holds integers, or of
\* dtype object and holds strings and None, whatever the input table held.
GuestColumns(rows) ==
    [dtype : {"object"}, values : [1..rows -> {PyNone, PyStr(UriM), PyStr(StrAb)}]]
        \cup [dtype : {"int64"}, values : [1..rows -> {PyInt("1")}]]

GuestTables ==
    { [c \in DOMAIN cols |->
          [name |-> ColumnNames[c], dtype |-> cols[c].dtype,
           values |-> cols[c].values]] :
        cols \in UNION { [1..shape[1] -> GuestColumns(shape[2])] :
                            shape \in { sh \in (1..MaxTableCols) \X (0..MaxTableCells) :
                                           sh[1] * sh[2] <= MaxTableCells } } }

\* _convert_largebinary_to_string_in_dataframe(frame): the data frame and the
\* column set it returns
convert_largebinary_to_string_in_dataframe(frame) ==
    [df |-> [c \in DOMAIN frame |->
                [name |-> frame[c].name, dtype |-> frame[c].dtype,
                 values |-> ColumnConverted(frame[c].values)]],
     columns |-> { frame[c].name : c \in { k \in DOMAIN frame :
                                             ColumnDetected(frame[k].values) } }]

\* the Arrow type pa.Table.from_pandas infers for a column: the dtype's for
\* int64, string for an object column holding a str, null for one that is
\* empty or all None
arrow_type(column) ==
    IF column.dtype = "int64" THEN "int64"
    ELSE IF \E i \in DOMAIN column.values : isinstance(column.values[i], "str")
    THEN pa_string
    ELSE "null"

\* pa.Table.from_pandas cannot infer a type for a column holding a reference
from_pandas_raises(frame) ==
    \E c \in DOMAIN frame : \E i \in DOMAIN frame[c].values :
        isinstance(frame[c].values[i], "largebinary")

\* pa.Table.from_pandas(frame): fields without metadata of their own, under a
\* schema carrying pandas' metadata
from_pandas(frame) ==
    [fields |-> [c \in DOMAIN frame |->
                    [name |-> frame[c].name, type |-> arrow_type(frame[c]),
                     nullable |-> TRUE, metadata |-> {}]],
     schema_metadata |-> TRUE,
     columns |-> [c \in DOMAIN frame |-> <<"data", frame[c].name>>]]

\* the output table tagged with the columns detected on the output table
\* alone
tag_output_table_OutputColumnsOnly(input_columns, output) ==
    add_large_binary_metadata_to_schema(
        from_pandas(output.df), output.columns).table

\* lines 223-233 of process_table: the output Arrow table, from the columns
\* detected on the input table and the converted output data frame
tag_output_table(input_columns, output) ==
    LET all_large_binary_columns == input_columns \cup output.columns
    IN  add_large_binary_metadata_to_schema(
            from_pandas(output.df), all_large_binary_columns).table

\* the rows of an Arrow table, which ArrowTableTupleProvider walks
num_rows(frame) == Len(frame[1].values)

\* The first next() of process_table(pt_table, port): up to the first yield,
\* to the end when the output table has no row, or to the exception of
\* pa.Table.from_pandas.  The guest routine returns any table.
ProcessTableStart ==
    /\ ptpc = "created"
    /\ LET input == convert_largebinary_to_string_in_dataframe(pt_table)
       IN  /\ input_large_binary_columns' = input.columns
           /\ IF from_pandas_raises(input.df)
              THEN /\ ptpc' = "raised"
                   /\ UNCHANGED <<input_pyarrow_table, output_pandas_df,
                                  output_large_binary_columns,
                                  output_pyarrow_table, pt_rows>>
              ELSE \E guest_df \in GuestTables :
                     LET output ==
                             convert_largebinary_to_string_in_dataframe(guest_df)
                     IN  /\ input_pyarrow_table' =
                                add_large_binary_metadata_to_schema(
                                    from_pandas(input.df), input.columns).table
                         /\ output_pandas_df' = output.df
                         /\ output_large_binary_columns' = output.columns
                         /\ output_pyarrow_table' =
                                tag_output_table(input.columns, output)
                         /\ IF num_rows(output.df) = 0
                            THEN ptpc' = "done" /\ pt_rows' = 0
                            ELSE ptpc' = "suspended" /\ pt_rows' = 1
    /\ UNCHANGED <<pt_table, tpc, df_in, df, large_binary_columns, rowVars,
                   guestVars>>

\* a later next(): the next row of the output table, or the end
ProcessTableResume ==
    /\ ptpc = "suspended"
    /\ IF pt_rows < num_rows(output_pandas_df)
       THEN pt_rows' = pt_rows + 1 /\ ptpc' = "suspended"
       ELSE pt_rows' = pt_rows /\ ptpc' = "done"
    /\ UNCHANGED <<pt_table, input_large_binary_columns, input_pyarrow_table,
                   output_pandas_df, output_large_binary_columns,
                   output_pyarrow_table, tpc, df_in, df, large_binary_columns,
                   rowVars, guestVars>>

\* a generator object just returned by process_table(pt_table, port)
ProcessInit ==
    /\ ptpc = "created"
    /\ pt_table \in InputTables
    /\ input_large_binary_columns = {}
    /\ input_pyarrow_table = NoTable
    /\ output_pandas_df = <<>>
    /\ output_large_binary_columns = {}
    /\ output_pyarrow_table = NoTable
    /\ pt_rows = 0

ProcessSpecInit ==
    /\ RowIdle /\ GuestIdle
    /\ tpc = "idle" /\ df_in = <<>> /\ df = <<>> /\ large_binary_columns = {}
    /\ ProcessInit

ProcessNext == ProcessTableStart \/ ProcessTableResume

ProcessSpec == ProcessSpecInit /\ [][ProcessNext]_vars

----------------------------------------------------------------------------
(* The specifications of the guest-side functions *)

\* a guest routine using one stream
StreamSpecInit ==
    RowIdle /\ TableIdle /\ StreamInit /\ LargebinaryIdle /\ SetupIdle
    /\ OperatorsIdle /\ ConvertIdle /\ SchemaIdle

StreamSpec == StreamSpecInit /\ [][StreamNext]_vars

\* a guest routine calling largebinary
LargebinarySpecInit ==
    RowIdle /\ TableIdle /\ StreamIdle /\ LargebinaryInit /\ SetupIdle
    /\ OperatorsIdle /\ ConvertIdle /\ SchemaIdle

LargebinarySpec == LargebinarySpecInit /\ [][LargebinaryNext]_vars

\* a process constructing executors
SetupSpecInit ==
    RowIdle /\ TableIdle /\ StreamIdle /\ LargebinaryIdle /\ SetupInit
    /\ OperatorsIdle /\ ConvertIdle /\ SchemaIdle

SetupSpec == SetupSpecInit /\ [][SetupNext]_vars

\* the operator instances of a process in interleaved execution contexts
OperatorsSpecInit ==
    RowIdle /\ TableIdle /\ StreamIdle /\ LargebinaryIdle /\ SetupIdle
    /\ OperatorsInit /\ ConvertIdle /\ SchemaIdle

OperatorsSpec == OperatorsSpecInit /\ [][OperatorsNext]_vars

\* calls of convert_r_to_py
ConvertSpecInit ==
    RowIdle /\ TableIdle /\ StreamIdle /\ LargebinaryIdle /\ SetupIdle
    /\ OperatorsIdle /\ ConvertInit /\ SchemaIdle

ConvertSpec == ConvertSpecInit /\ [][ConvertNext]_vars

\* calls of _add_large_binary_metadata_to_schema
SchemaSpecInit ==
    RowIdle /\ TableIdle /\ StreamIdle /\ LargebinaryIdle /\ SetupIdle
    /\ OperatorsIdle /\ ConvertIdle /\ SchemaInit

SchemaSpec == SchemaSpecInit /\ [][SchemaNext]_vars

----------------------------------------------------------------------------
(* What the claims speak of *)

\* the generator has yielded at least once and did not raise
Started == pc \in {"suspended", "done"}

\* the behaviour behind the j-th yielded element, and what the guest returned
BehaviourAt(j) == script[((j - 1) % Len(script)) + 1]
GuestOutAt(j) == GuestReturn(BehaviourAt(j), input_r_list)

\* the set of a sequence's elements, and the first place of x in it
Elems(seq) == { seq[i] : i \in DOMAIN seq }
PlaceOf(seq, x) == CHOOSE i \in DOMAIN seq :
                      seq[i] = x /\ \A j \in 1..(i - 1) : seq[j] # x

\* the guest record's value under a name, R's NULL when it has none
GuestValue(out, n) ==
    IF n \in Elems(NamesOf(out.items))
    THEN out.items[PlaceOf(NamesOf(out.items), n)].val
    ELSE RNULL

\* a guest value that is one string beginning with s3://
IsUriString(gv) ==
    gv.t = "StrVector" /\ Len(gv.v) = 1 /\ startswith(gv.v[1], S3Prefix)

\* the names of the input row's fields that carry the large-object tag
TaggedNames == { tuple_[i].name : i \in { k \in DOMAIN tuple_ :
                    tuple_[k].meta = LARGE_BINARY_METADATA_VALUE } }

\* out is the same value as in: equal, or a reference with the URI that in
\* holds, or the absent value for None
SameValue(in, out) ==
    \/ out = in
    \/ /\ out.t = "largebinary"
       /\ in.t \in {"largebinary", "str"}
       /\ out.v = in.v
    \/ in = PyNone /\ out = RNULL

\* the guest routine's first return is the record it was given
RoundTripCase == kind = "tuple" /\ Started /\ script[1] = "same"

\* the i-th input field holds a pickled blob in a binary field
IsPickledBinary(i) ==
    /\ tuple_[i].val.t = "bytes"
    /\ tuple_[i].type = pa_binary
    /\ tuple_[i].meta # LARGE_BINARY_METADATA_VALUE

C2_FieldOrder ==
    kind = "tuple" =>
        \A j \in DOMAIN yielded :
            ~yielded[j].isNone =>
                LET ns == NamesOf(yielded[j].row)
                    gn == NamesOf(GuestOutAt(j).items)
                    inn == NamesOf(tuple_)
                    n == Len(inn)
                IN  /\ Len(ns) >= n
                    /\ SubSeq(ns, 1, n) = inn
                    /\ LET rest == SubSeq(ns, n + 1, Len(ns))
                       IN  /\ Elems(rest) = Elems(gn) \ Elems(inn)
                           /\ \A p, q \in DOMAIN rest :
                                 p < q => /\ rest[p] # rest[q]
                                          /\ PlaceOf(gn, rest[p]) < PlaceOf(gn, rest[q])

\* a row rebuilt from a record that omits an input field, then one rebuilt from
\* a record with two new fields around the input fields
C2_Witness ==
    /\ kind = "tuple"
    /\ Len(tuple_) = 2
    /\ Len(yielded) >= 2
    /\ BehaviourAt(1) = "drop1" /\ ~yielded[1].isNone
    /\ BehaviourAt(2) = "addyx" /\ ~yielded[2].isNone
    /\ NamesOf(yielded[2].row) = NamesOf(tuple_) \o <<"y", "x">>

\* (C3) extract_tuple_from_r returns None exactly when the guest generator
\* returned the reserved symbol or a record without field names, for a source
\* and a non-source alike; otherwise it returns a row.
C3_EndOfStream ==
    \A j \in DOMAIN yielded :
        yielded[j].isNone <=>
            \/ BehaviourAt(j) = "sentinel"
            \/ ~GuestOutAt(j).named
            \/ NamesOf(GuestOutAt(j).items) = <<>>

\* a row, then None for a non-empty list without names
C3_Witness ==
    /\ Len(yielded) >= 2
    /\ ~yielded[1].isNone
    /\ BehaviourAt(2) = "unnamed"
    /\ GuestOutAt(2).items # <<>>
    /\ yielded[2].isNone

\* the row a source's record comes back as
ExpectedSourceRow(beh) ==
    IF beh = "addx" THEN <<[name |-> "x", val |-> largebinary(UriM)]>>
    ELSE <<[name |-> "y", val |-> PyInt(<<"2">>)],
           [name |-> "x", val |-> PyStr(StrAb)]>>

\* a source whose generator returned records, then the sentinel, was drained
SourceDrained ==
    kind = "source" /\ pc = "done" /\ script[Len(script)] = "sentinel"

\* (C4, as stated) A source whose guest generator returns k records and then
\* the sentinel yields exactly k rows, in the guest's order, and nothing else.
C4_ExactlyKRows ==
    SourceDrained =>
        /\ Len(yielded) = Len(script) - 1
        /\ \A i \in 1..(Len(script) - 1) :
              yielded[i] = [isNone |-> FALSE, row |-> ExpectedSourceRow(script[i])]

\* (C4, amended) A source whose guest generator returns k records and then the
\* sentinel yields the k rows, in the guest's order, then one None, and stops.
C4_KRowsThenNone ==
    SourceDrained =>
        /\ Len(yielded) = Len(script)
        /\ \A i \in 1..(Len(script) - 1) :
              yielded[i] = [isNone |-> FALSE, row |-> ExpectedSourceRow(script[i])]
        /\ yielded[Len(script)] = NoneResult

\* three records, not all alike, then the sentinel
C4_Witness ==
    /\ SourceDrained
    /\ Len(script) = 4
    /\ script[1] # script[2]
    /\ Len(yielded) = 4

\* the guest generator signals the end of the stream at some return
GeneratorEnds ==
    \E i \in DOMAIN script :
        LET out == GuestReturn(script[i], BuildInputRList(tuple_))
        IN  out.cls = "SexpSymbol" \/ ~out.named \/ out.items = <<>>

\* (C5) For every input row, process_tuple calls the guest callable exactly
\* once and then invokes the generator it returned again and again; it ends if
\* the generator signals the end of the stream, and never ends if it never does.
C5_DrainsUntilEnd ==
    /\ [](kind = "tuple" /\ Started => funcCalls = 1)
    /\ (kind = "tuple" /\ GeneratorEnds ~> pc = "done")
    /\ [](kind = "tuple" /\ ~GeneratorEnds => pc # "done")

\* process_tuple ended after one call of the callable and several of the generator
C5_Witness ==
    /\ kind = "tuple"
    /\ pc = "done"
    /\ funcCalls = 1
    /\ genCalls = Len(script)
    /\ genCalls >= 2

\* (C6) process_tuple places every field of the input schema in exactly one of
\* the groups plain, binary, large-object; the group follows from the field's
\* metadata tag and declared type alone, and a tagged field is large-object
\* whatever its declared type.
C6_FieldGroups ==
    kind = "tuple" /\ pc # "created" =>
        /\ Elems(non_binary_fields) \cup Elems(binary_fields)
             \cup Elems(large_binary_fields) = Elems(NamesOf(tuple_))
        /\ \A i \in DOMAIN tuple_ :
              LET tagged == tuple_[i].meta = LARGE_BINARY_METADATA_VALUE
                  n == tuple_[i].name
              IN  /\ n \in Elems(large_binary_fields) <=> tagged
                  /\ n \in Elems(binary_fields) <=>
                        ~tagged /\ tuple_[i].type = pa_binary
                  /\ n \in Elems(non_binary_fields) <=>
                        ~tagged /\ tuple_[i].type # pa_binary

\* two tagged fields of different declared type and different kinds of value,
\* both placed in the large-object group
C6_Witness ==
    /\ kind = "tuple" /\ pc # "created"
    /\ Len(tuple_) = 2
    /\ tuple_[1].meta = LARGE_BINARY_METADATA_VALUE /\ tuple_[1].type = pa_binary
    /\ tuple_[1].val.t = "str"
    /\ tuple_[2].meta = LARGE_BINARY_METADATA_VALUE /\ tuple_[2].type = "string"
    /\ tuple_[2].val.t = "largebinary"
    /\ large_binary_fields = <<"a", "b">>

\* (C7, as stated) For every field tagged large-object and every runtime value
\* of it, the guest routine is handed a URI string, and every returned row holds
\* a large-object reference or None/absent in that field.
C7_AlwaysUriAndReference ==
    kind = "tuple" /\ Started =>
        \A n \in TaggedNames :
            /\ IsUriString(GuestValue([items |-> input_r_list], n))
            /\ \A j \in DOMAIN yielded :
                  ~yielded[j].isNone =>
                      \A i \in DOMAIN yielded[j].row :
                          yielded[j].row[i].name = n =>
                              yielded[j].row[i].val.t \in {"largebinary", "none", "NULL"}

\* (C7, amended) For every field tagged large-object: the guest routine is
\* handed the reference's URI string when the value is a reference, the string
\* when it is a string, and no string when it is None; a returned row holds a
\* reference in that field exactly when the guest returned an s3:// string for
\* it, and otherwise what the guest returned (a plain string stays a string).
C7_UriWhenReference ==
    kind = "tuple" /\ Started =>
        \A k \in DOMAIN tuple_ :
            tuple_[k].name \in TaggedNames =>
                LET n == tuple_[k].name
                    in == tuple_[k].val
                    handed == GuestValue([items |-> input_r_list], n)
                IN  /\ in.t \in {"largebinary", "str"} =>
                          handed = RVector("StrVector", in.v)
                    /\ in.t = "none" => handed = RNULL
                    /\ \A j \in DOMAIN yielded :
                          ~yielded[j].isNone =>
                              LET gv == GuestValue(GuestOutAt(j), n)
                                  out == yielded[j].row[k].val
                              IN  /\ yielded[j].row[k].name = n
                                  /\ out.t = "largebinary" <=> IsUriString(gv)
                                  /\ IsUriString(gv) => out.v = gv.v
                                  /\ gv.t = "StrVector" /\ ~IsUriString(gv) =>
                                        out = PyStr(gv.v[1])
                                  /\ gv = RNULL => out = RNULL

\* a tagged field holding a reference went to the guest as its URI string, came
\* back as a reference, and came back as a plain string when the guest set one
C7_Witness ==
    /\ kind = "tuple" /\ Started
    /\ tuple_[1].meta = LARGE_BINARY_METADATA_VALUE
    /\ tuple_[1].val = largebinary(UriK)
    /\ input_r_list[1].val = RVector("StrVector", <<UriK>>)
    /\ Len(yielded) >= 2
    /\ BehaviourAt(1) = "same" /\ yielded[1].row[1].val = largebinary(UriK)
    /\ BehaviourAt(2) = "setab" /\ yielded[2].row[1].val = PyStr(StrAb)

\* (C8) extract_tuple_from_r rebinds a converted value as a large-object
\* reference exactly when it is a string beginning with s3:// and the call is
\* for a source or the field is in largeObjectFieldNames; the reference's URI is
\* that string; for a non-source, an s3:// string in another field stays a string.
C8_Rebinding ==
    \A j \in DOMAIN yielded :
        ~yielded[j].isNone =>
            \A i \in DOMAIN yielded[j].row :
                LET n == yielded[j].row[i].name
                    out == yielded[j].row[i].val
                    gv == GuestValue(GuestOutAt(j), n)
                    rebind == /\ IsUriString(gv)
                              /\ kind = "source" \/ n \in TaggedNames
                IN  /\ out.t = "largebinary" <=> rebind
                    /\ rebind => out.v = gv.v
                    /\ IsUriString(gv) /\ ~rebind => out = PyStr(gv.v[1])

\* a non-source row with an s3:// string left alone in an untagged field and
\* one rebound in a tagged field
C8_Witness ==
    /\ kind = "tuple"
    /\ Len(yielded) >= 1 /\ ~yielded[1].isNone
    /\ Len(yielded[1].row) = 2
    /\ "a" \notin TaggedNames /\ yielded[1].row[1].val = PyStr(UriK)
    /\ "b" \in TaggedNames /\ yielded[1].row[2].val = largebinary(UriM)

\* the first value of a column that is not null, None when there is none
FirstNonNull(values) ==
    IF dropna(values) = <<>> THEN PyNone ELSE dropna(values)[1]

\* how many values of a column are not null, and how many are s3:// strings
NonNullCount(values) == Cardinality({ i \in DOMAIN values : values[i].t # "none" })
S3StringCount(values) == Cardinality({ i \in DOMAIN values : IsS3String(values[i]) })

\* the column's values with every reference replaced by its URI string
WithUris(values) ==
    [i \in DOMAIN values |->
        IF values[i].t = "largebinary" THEN PyStr(values[i].v[1]) ELSE values[i]]

\* (C9) In the table marshaller a column is detected as large-object when its
\* first non-null value is a reference object (also when nulls precede it) or when
\* at least 80% of its non-null values are s3:// strings; in a detected column
\* every reference object is replaced by its URI string and nothing else
\* changes; a column that is not detected is left unchanged.
C9_ColumnDetection ==
    tpc = "returned" =>
        \A c \in DOMAIN df_in :
            LET values == df_in[c].values
                detected == df_in[c].name \in large_binary_columns
                n == NonNullCount(values)
                k == S3StringCount(values)
            IN  /\ FirstNonNull(values).t = "largebinary" => detected
                /\ n > 0 /\ 10 * k >= 8 * n => detected
                /\ detected => df[c].values = WithUris(values)
                /\ ~detected => df[c].values = values

\* (C10) The string detection threshold is exactly 80% of the non-null values:
\* a column of n non-null values of which k are s3:// strings, in whatever
\* positions, is classified large-object if k/n >= 0.8 and is not if k/n < 0.8.
C10_Threshold ==
    tpc = "returned" =>
        \A c \in DOMAIN df_in :
            LET values == df_in[c].values
                detected == df_in[c].name \in large_binary_columns
                n == NonNullCount(values)
                k == S3StringCount(values)
                strings == \A i \in DOMAIN values : values[i].t \in {"none", "str"}
            IN  n > 0 /\ strings =>
                    /\ 10 * k >= 8 * n => detected
                    /\ 10 * k < 8 * n => ~detected

----------------------------------------------------------------------------
(* C11, C12: the streams after close() *)

\* C11: on either stream, once close() has been called, every read, readline
\* or write call fails with the closed-stream error and performs no read or
\* write on the staging file; closed() returns TRUE, readable() and writable()
\* return FALSE; and the stream's flag stays set, whatever is called.
C11_ClosedStream ==
    /\ closeCalls > 0 => closed
    /\ lastCall.wasClosed =>
        /\ lastCall.op \in {"read", "readline", "write"} =>
              lastCall.err = ClosedStreamError /\ lastCall.io = 0
        /\ lastCall.op = "closed" => lastCall.value = RLogical(TRUE)
        /\ lastCall.op \in {"readable", "writable"} =>
              lastCall.value = RLogical(FALSE)

\* a read on an input stream that still had bytes to read when it was closed
C11_Witness ==
    /\ sdir = "in"
    /\ lastCall.op = "read"
    /\ lastCall.wasClosed
    /\ lastCall.err = ClosedStreamError
    /\ readPos < Len(content)

\* C12: the first close() of a write stream attempts the upload, and when it
\* exits the staging file is removed, whether the upload succeeded or failed;
\* a failed upload makes close() stop with the upload error, a successful one
\* leaves the staged bytes at the stream's URI.
C12_CloseUploadsAndCleans ==
    (sdir = "out" /\ lastCall.op = "close" /\ ~lastCall.wasClosed) =>
        /\ lastCall.upload \in {"ok", "failed"}
        /\ ~temp_file
        /\ lastCall.upload = "failed" => lastCall.err = UploadError
        /\ lastCall.upload = "ok" =>
              lastCall.err = "" /\ object = [present |-> TRUE, bytes |-> content]

\* the first close() of a write stream with staged bytes, its upload failing
C12_Witness ==
    /\ sdir = "out"
    /\ lastCall.op = "close"
    /\ ~lastCall.wasClosed
    /\ lastCall.upload = "failed"
    /\ content # <<>>
    /\ ~temp_file

----------------------------------------------------------------------------
(* C13: bind *)

\* the argument is one string that begins with s3://
IsSingleS3String(arg) ==
    /\ arg.t = "StrVector"
    /\ Len(arg.v) = 1
    /\ Len(arg.v[1]) >= 5
    /\ SubSeq(arg.v[1], 1, 5) = <<"s", "3", ":", "/", "/">>

\* C13: largebinary called with an argument that is not NULL returns the
\* argument unchanged when it is a single string beginning with s3://, and
\* stops with an invalid-reference error for every other argument; a call that
\* stops makes no request to object storage and creates nothing there.
C13_Bind ==
    lastLb.kind = "bind" =>
        IF IsSingleS3String(lastLb.arg)
        THEN lastLb.err = "" /\ lastLb.value = lastLb.arg
        ELSE /\ lastLb.err \in {MustBeSingleString, MustStartWithS3}
             /\ lastLb.requests = 0
             /\ lastLb.put = "none"

\* a bind of a single string that holds s3:// but does not begin with it
C13_Witness ==
    /\ lastLb.kind = "bind"
    /\ lastLb.arg = RCharacter(<<StrXUri>>)
    /\ lastLb.err = MustStartWithS3

----------------------------------------------------------------------------
(* C14: the constructors' setup *)

\* the runs of _setup_r_large_binary_apis so far, returned or raised
SetupRuns == { i \in DOMAIN ctorLog : ctorLog[i].ev \in {"setup", "setup_raised"} }

\* every evaluation of the user's R code comes right after the setup of the
\* same constructor has returned
SetupBeforeUserCode ==
    \A i \in DOMAIN ctorLog :
        ctorLog[i].ev = "load" =>
            /\ i > 1
            /\ ctorLog[i - 1].ev = "setup"
            /\ ctorLog[i - 1].cls = ctorLog[i].cls

\* C14 as claimed: each constructor completes the setup before it evaluates
\* the user's R code; the setup is performed exactly once per process; and once
\* the first constructor has run, constructing further executors leaves the
\* four STORAGE_S3_* variables unchanged.
C14_SetupOncePerProcess ==
    /\ SetupBeforeUserCode
    /\ Cardinality(SetupRuns) <= 1
    /\ \A i \in DOMAIN ctorLog :
          ctorLog[i].ev = "load" =>
              /\ environ = ctorLog[i].environ
              /\ \A j \in DOMAIN ctorLog : j > i =>
                    ctorLog[j].environ = ctorLog[i].environ

\* C14 as the code has it: each constructor completes the setup before it
\* evaluates the user's R code; the setup runs once in every constructor; and
\* it is idempotent: two runs of it that find the same StorageConfig leave the
\* four STORAGE_S3_* variables with the same values.
C14_SetupPerConstructor ==
    /\ SetupBeforeUserCode
    /\ \A i \in DOMAIN ctorLog :
          (ctorLog[i].ev = "setup" /\ i < Len(ctorLog)) =>
              /\ ctorLog[i + 1].ev = "load"
              /\ ctorLog[i + 1].cls = ctorLog[i].cls
    /\ \A i \in SetupRuns : \A j \in SetupRuns :
          (i < j /\ ctorLog[i].config = ctorLog[j].config) =>
              ctorLog[j].environ = ctorLog[i].environ
    /\ \A i \in SetupRuns : i = Len(ctorLog) => environ = ctorLog[i].environ

\* two executors of different classes constructed with StorageConfig not
\* initialized, the first setup having filled a variable that was not set
C14_Witness ==
    /\ Len(ctorLog) = 4
    /\ ctorLog[2].ev = "load"
    /\ ctorLog[4].ev = "load"
    /\ ctorLog[1].cls = "RTupleExecutor"
    /\ ctorLog[3].cls = "RTableSourceExecutor"
    /\ ctorLog[3].config = Uninitialized
    /\ environ["STORAGE_S3_REGION"] = "us-west-2"
    /\ environ["STORAGE_S3_ENDPOINT"] = "env"

----------------------------------------------------------------------------
(* C15: one guest call at a time *)

\* the instances that are inside the guest runtime
InFlight == { i \in DOMAIN operators : operators[i].at \in {"func", "generator"} }

----------------------------------------------------------------------------
(* C16: convert_r_to_py *)

\* the native class of the scalar a guest vector of length one holds
NativeClass(cls) ==
    CASE cls = "BoolVector" -> "bool"
      [] cls = "IntVector" -> "int"
      [] cls = "FloatVector" -> "float"
      [] cls = "StrVector" -> "str"
      [] cls = "POSIXct" -> "datetime"

\* C16: convert_r_to_py never raises; a boolean, integer, floating-point or
\* character vector of length one comes back as the native scalar, a date-time
\* vector as a native timestamp, and every other value (a reference, a vector
\* of length zero or of length above one, a value that is no vector) comes
\* back unchanged.
C16_ConvertNeverRaises ==
    cvpc = "returned" =>
        /\ converted.t # "raise"
        /\ IF cv_value.t \in {"BoolVector", "IntVector", "FloatVector", "StrVector",
                           "POSIXct"}
              /\ Len(cv_value.v) = 1
           THEN converted = [t |-> NativeClass(cv_value.t), v |-> cv_value.v]
           ELSE converted = cv_value

----------------------------------------------------------------------------
(* C17: the schema is rebuilt only when a tag is needed *)

\* the field carries the large-object tag
CarriesTag(field) ==
    <<"texera_type", "LARGE_BINARY">> \in field.metadata

\* the positions of the string-typed fields the column set names
NamedStringFields ==
    { i \in DOMAIN sch_table.fields :
        /\ sch_table.fields[i].name \in sch_columns
        /\ sch_table.fields[i].type = "string" }

\* C17: _add_large_binary_metadata_to_schema returns the table it was given
\* when the column set is empty or every named string-typed field carries the
\* tag already; otherwise it returns a table in which exactly the named
\* string-typed fields are newly tagged, every other field, the order of the
\* columns and their data being as before; and a second call with the
\* returned table and the same column set returns that table.
C17_SchemaRebuild ==
    /\ schpc \in {"returned", "returned twice"} =>
          IF \/ sch_columns = {}
             \/ \A i \in NamedStringFields : CarriesTag(sch_table.fields[i])
          THEN sch_result.same /\ sch_result.table = sch_table
          ELSE /\ ~sch_result.same
               /\ Len(sch_result.table.fields) = Len(sch_table.fields)
               /\ \A i \in DOMAIN sch_table.fields :
                     /\ sch_result.table.fields[i].name = sch_table.fields[i].name
                     /\ sch_result.table.fields[i].type = sch_table.fields[i].type
                     /\ CarriesTag(sch_result.table.fields[i]) <=>
                           (i \in NamedStringFields
                               \/ CarriesTag(sch_table.fields[i]))
                     /\ i \notin NamedStringFields =>
                           sch_result.table.fields[i] = sch_table.fields[i]
               /\ sch_result.table.columns = sch_table.columns
    /\ schpc = "returned twice" =>
          sch_again.same /\ sch_again.table = sch_result.table

\* a table rebuilt for its first field, a named string field with another
\* value under the tag's key, its second field named but not string-typed,
\* and then handed in again
C17_Witness ==
    /\ schpc = "returned twice"
    /\ ~sch_result.same
    /\ Len(sch_table.fields) = 2
    /\ sch_columns = {"c1", "c2"}
    /\ sch_table.fields[1].type = "string"
    /\ sch_table.fields[1].metadata = {<<"texera_type", "OTHER">>}
    /\ sch_table.fields[2].type = "int64"
    /\ CarriesTag(sch_result.table.fields[1])
    /\ ~CarriesTag(sch_result.table.fields[2])

----------------------------------------------------------------------------
(* C18: mint *)

\* s3://texera-large-binaries/objects/<decimal digits>/<32 hex characters>
IsMintUri(u) ==
    LET head == <<"s", "3", ":", "/", "/">> \o DEFAULT_BUCKET \o ObjectsPath
        rest == SubSeq(u, Len(head) + 1, Len(u))
        ms == SubSeq(rest, 1, Len(rest) - 33)
        id == SubSeq(rest, Len(rest) - 31, Len(rest))
    IN  /\ Len(u) >= Len(head) + 34
        /\ SubSeq(u, 1, Len(head)) = head
        /\ rest[Len(rest) - 32] = "/"
        /\ \A i \in DOMAIN ms : \E d \in DOMAIN Digit : ms[i] = Digit[d]
        /\ \A i \in DOMAIN id : \E h \in DOMAIN HexChars : id[i] = HexChars[h]

\* C18: every call of largebinary without argument returns a URI
\* s3://texera-large-binaries/objects/<decimal milliseconds>/<32 hex
\* characters>, whether the default bucket exists, is created by the call or
\* cannot be created, and no two of the calls return the same URI.
C18_MintUnique ==
    /\ lastLb.kind = "mint" =>
          /\ lastLb.err = ""
          /\ lastLb.value.t = "StrVector"
          /\ Len(lastLb.value.v) = 1
          /\ IsMintUri(lastLb.value.v[1])
    /\ \A i \in DOMAIN minted : IsMintUri(minted[i])
    /\ \A i, j \in DOMAIN minted : i # j => minted[i] # minted[j]

----------------------------------------------------------------------------
(* C19: the invocations of the guest generator *)

\* C19: in a process_tuple or produce call that has not raised, the guest
\* generator has been invoked once for every element yielded; only the last
\* element yielded can be the None of the end of the stream; and once the call
\* has ended, after k rows and that None, the generator has been invoked k + 1
\* times, however often the consumer asks for more.
C19_GeneratorCalls ==
    /\ pc \in {"suspended", "done"} => genCalls = Len(yielded)
    /\ \A i \in DOMAIN yielded : yielded[i].isNone => i = Len(yielded)
    /\ pc = "done" =>
          /\ yielded # <<>>
          /\ yielded[Len(yielded)].isNone
          /\ genCalls =
                Cardinality({ i \in DOMAIN yielded : ~yielded[i].isNone }) + 1
    /\ stopIterations > 0 => pc = "done"

\* a source whose generator returned two records and then the end of the
\* stream, asked for more elements after it ended
C19_Witness ==
    /\ kind = "source"
    /\ pc = "done"
    /\ stopIterations > 0
    /\ genCalls = 3
    /\ Len(yielded) = 3
    /\ ~yielded[2].isNone

----------------------------------------------------------------------------
(* C20: one upload in the life of a write stream *)

\* C20: a write stream attempts its upload at most once; from the first
\* close() on, its flag is set and its staging file is gone, whether that
\* upload succeeded or failed; and every later close() returns without an
\* error and without an upload.
C20_UploadAtMostOnce ==
    sdir = "out" =>
        /\ uploads <= 1
        /\ uploads = 1 => closed
        /\ closeCalls > 0 => closed /\ ~temp_file /\ uploads = 1
        /\ (lastCall.op = "close" /\ lastCall.wasClosed) =>
              lastCall.upload = "none" /\ lastCall.err = ""

\* a second close() of a write stream whose first close() failed to upload
\* the bytes that were staged
C20_Witness ==
    /\ sdir = "out"
    /\ closeCalls = 2
    /\ lastCall.op = "close"
    /\ lastCall.wasClosed
    /\ uploads = 1
    /\ ~object.present
    /\ content # <<>>

----------------------------------------------------------------------------
(* C21: the tagged columns of process_table's output *)

\* the names of the fields of a table that carry the large-object tag
TaggedColumns(table) ==
    { table.fields[i].name :
        i \in { k \in DOMAIN table.fields : CarriesTag(table.fields[k]) } }

\* the names of the string-typed fields of a table
StringColumns(table) ==
    { table.fields[i].name :
        i \in { k \in DOMAIN table.fields : table.fields[k].type = "string" } }

\* the names of the columns of a data frame the detection picks
DetectedOn(frame) ==
    { frame[c].name : c \in { k \in DOMAIN frame :
                                ColumnDetected(frame[k].values) } }

\* C21: once process_table has built its output table, the output columns
\* tagged large-object are exactly the string-typed output columns whose name
\* is among the columns detected on the input table or on the guest's output
\* table; so a column detected on input is tagged on output whenever it is
\* string-typed there, whatever it holds, and a column that is not
\* string-typed on output is not tagged.
C21_TaggedOutputColumns ==
    ptpc \in {"suspended", "done"} =>
        /\ input_large_binary_columns = DetectedOn(pt_table)
        /\ output_large_binary_columns = DetectedOn(output_pandas_df)
        /\ TaggedColumns(output_pyarrow_table) =
              StringColumns(output_pyarrow_table)
                 \cap (DetectedOn(pt_table) \cup DetectedOn(output_pandas_df))
        /\ \A i \in DOMAIN output_pyarrow_table.fields :
              LET field == output_pyarrow_table.fields[i]
              IN  /\ (field.name \in DetectedOn(pt_table)
                         /\ field.type = "string") => CarriesTag(field)
                  /\ field.type # "string" => ~CarriesTag(field)

\* an input table whose two columns are both detected; the guest returns the
\* first holding a string that is no URI, which stays tagged though the
\* output table's own detection does not pick it, and the second as integers,
\* which is not tagged
C21_Witness ==
    /\ ptpc = "suspended"
    /\ input_large_binary_columns = {"c1", "c2"}
    /\ output_large_binary_columns = {}
    /\ Len(output_pandas_df) = 2
    /\ output_pandas_df[1].values = <<PyStr(StrAb)>>
    /\ output_pandas_df[2].dtype = "int64"
    /\ CarriesTag(output_pyarrow_table.fields[1])
    /\ ~CarriesTag(output_pyarrow_table.fields[2])

====
